---- MODULE Spec2Model ----
(***************************************************************************)
(* Transaction fee analytics core of pastrop/mcp_testbench (recon_agent).  *)
(*                                                                         *)
(* Money is modelled in integer cents (a Decimal with 2 places), rates in  *)
(* thousandths (Decimal("0.038") is 38, Decimal("0.1") is 100), dates in   *)
(* whole days, confidences in hundredths (0.7 is 70).                      *)
(***************************************************************************)
EXTENDS Integers, Sequences, FiniteSets, TLC

VARIABLES
    current_balance,  \* RollingReserveTracker.current_balance (cents)
    holdings,         \* RollingReserveTracker.holdings: sequence of [date, amount]
    ret,              \* outcome of the last tracker call
    ncalls,           \* number of tracker calls made so far
    pc,               \* position of the function call or loop under check
    input,            \* arguments of the call under check
    output            \* its result

trackerVars == <<current_balance, holdings, ret, ncalls>>
callVars == <<pc, input, output>>

vars == <<current_balance, holdings, ret, ncalls, pc, input, output>>

NoDate == -1         \* date = None: the optional date argument was omitted

(***************************************************************************)
(* Bounds of the model.                                                    *)
(***************************************************************************)
cap == 30            \* RollingReserveTracker.cap, in cents
holding_days == 2    \* RollingReserveTracker.holding_days
MaxDay == 4          \* dates are the days 0..MaxDay
MaxCalls == 3        \* tracker calls per behaviour

Abs(x) == IF x < 0 THEN -x ELSE x

(***************************************************************************)
(* Decimal.quantize(Decimal("0.01"), ROUND_HALF_UP) of the exact quotient  *)
(* n/d, in cents: nearest cent, ties away from zero.                       *)
(***************************************************************************)
QuantizeHalfUp(n, d) ==
    LET m == (2 * Abs(n) + d) \div (2 * d)
    IN  IF n < 0 THEN -m ELSE m

RECURSIVE SumAmounts(_)
SumAmounts(hs) ==
    IF hs = <<>> THEN 0 ELSE Head(hs).amount + SumAmounts(Tail(hs))

(***************************************************************************)
(* RollingReserveTracker                                                   *)
(***************************************************************************)
Amounts == {-125, 5, 125, 400}      \* transaction amounts, cents
Rates == {100}                      \* rolling_reserve_rate 0.1, thousandths
Days == 0..MaxDay
NoCall == [op |-> "none"]

TrackerNew ==
    /\ current_balance = 0
    /\ holdings = <<>>
    /\ ret = NoCall
    /\ ncalls = 0

NoCallVars ==
    /\ pc = "tracker"
    /\ input = <<>>
    /\ output = <<>>

TrackerInit == TrackerNew /\ NoCallVars

IsCapped(balance, rr_amount) == balance + rr_amount > cap

AppliedAmountUncapped(balance, rr_amount) == rr_amount

AppliedAmount(balance, rr_amount) ==
    IF IsCapped(balance, rr_amount) THEN cap - balance ELSE rr_amount

\* the body of calculate_rr(amount, rate, date); date = NoDate when the
\* argument is omitted
CalculateRRCall(amount, rate, date) ==
    LET rr_amount == QuantizeHalfUp(amount * rate, 1000)
        capped == IsCapped(current_balance, rr_amount)
        applied_amount == AppliedAmount(current_balance, rr_amount)
    IN  /\ ncalls < MaxCalls
        /\ ncalls' = ncalls + 1
        /\ current_balance' = current_balance + applied_amount
        /\ holdings' = IF date # NoDate
                       THEN Append(holdings, [date |-> date, amount |-> applied_amount])
                       ELSE holdings
        /\ ret' = [op |-> "calculate_rr",
                   amount |-> amount, rate |-> rate, date |-> date,
                   rr_amount |-> rr_amount,
                   applied_amount |-> applied_amount,
                   capped |-> capped,
                   current_balance |-> current_balance + applied_amount,
                   remaining_capacity |-> cap - (current_balance + applied_amount)]

calculate_rr(amount, rate, date) ==
    CalculateRRCall(amount, rate, date) /\ UNCHANGED callVars

\* release_expired(current_date).  sum() of an empty list is the int 0, which
\* has no quantize method: the call raises AttributeError after the state
\* has been written back.
ToRelease(h, release_date) == h.date <= release_date

ReleaseExpiredCall(current_date) ==
    LET release_date == current_date - holding_days
        to_release == SelectSeq(holdings, LAMBDA h : ToRelease(h, release_date))
        kept == SelectSeq(holdings, LAMBDA h : ~ToRelease(h, release_date))
        released_amount == SumAmounts(to_release)
    IN  /\ ncalls < MaxCalls
        /\ ncalls' = ncalls + 1
        /\ holdings' = kept
        /\ current_balance' = current_balance - released_amount
        /\ ret' = [op |-> "release_expired",
                   current_date |-> current_date,
                   raised |-> (to_release = <<>>),
                   released |-> released_amount]

release_expired(current_date) ==
    ReleaseExpiredCall(current_date) /\ UNCHANGED callVars

CalculateRR ==
    \E amount \in Amounts, rate \in Rates, date \in Days \cup {NoDate} :
        calculate_rr(amount, rate, date)

ReleaseExpired ==
    \E current_date \in Days : release_expired(current_date)

Next ==
    \/ CalculateRR
    \/ ReleaseExpired

Spec == TrackerInit /\ [][Next]_vars

(***************************************************************************)
(* Claims about RollingReserveTracker, checked under Spec.                 *)
(***************************************************************************)
TrackerCall(op) == ncalls' = ncalls + 1 /\ ret'.op = op

\* C1: after every call in any sequence of calculate_rr and release_expired
\* calls on a new tracker, current_balance <= cap.
C1_BalanceNeverExceedsCap == current_balance <= cap

\* C2: after any sequence of calculate_rr calls (with or without the date
\* argument) and release_expired calls, current_balance equals the sum of
\* the amounts of the holdings still in the holdings list.
C2_BalanceIsSumOfHoldings == current_balance = SumAmounts(holdings)

\* C3: calculate_rr(amount, rate, date) computes rr = amount x rate rounded
\* half-up to the cent (nearest cent, a tie going away from zero); when
\* current_balance + rr > cap it applies cap - current_balance and reports
\* capped, otherwise it applies rr and reports not capped; current_balance
\* grows by the applied amount and the holding (date, applied_amount) is
\* appended.
C3_CalculateRR ==
    [][ (TrackerCall("calculate_rr") /\ ret'.date # NoDate) =>
          LET r == ret'
              exact == r.amount * r.rate          \* in 1/1000 of a cent
              err == Abs(1000 * r.rr_amount - exact)
          IN  /\ 2 * err <= 1000
              /\ (2 * err = 1000 => Abs(1000 * r.rr_amount) > Abs(exact))
              /\ (current_balance + r.rr_amount > cap =>
                    r.capped /\ r.applied_amount = cap - current_balance)
              /\ (current_balance + r.rr_amount <= cap =>
                    ~r.capped /\ r.applied_amount = r.rr_amount)
              /\ current_balance' = current_balance + r.applied_amount
              /\ holdings' = Append(holdings,
                                    [date |-> r.date, amount |-> r.applied_amount])
      ]_vars

\* C3 witness: a dated calculate_rr call was capped to a partial amount.
C3_Witness ==
    /\ ret.op = "calculate_rr"
    /\ ret.date # NoDate
    /\ ret.capped
    /\ ret.applied_amount > 0
    /\ ret.applied_amount < ret.rr_amount
    /\ Len(holdings) >= 2

\* C4: release_expired(current_date) removes exactly the holdings whose date
\* is more than holding_days before current_date (a holding exactly
\* holding_days old is kept), subtracts the sum of the removed amounts from
\* current_balance and, when it returns, returns that sum.
C4_ReleaseOlderThanHoldingDays ==
    [][ TrackerCall("release_expired") =>
          LET d == ret'.current_date
              Old(h) == d - h.date > holding_days
              Young(h) == ~Old(h)
              removed == SelectSeq(holdings, Old)
          IN  /\ holdings' = SelectSeq(holdings, Young)
              /\ current_balance' = current_balance - SumAmounts(removed)
              /\ (~ret'.raised => ret'.released = SumAmounts(removed))
      ]_vars

\* C5: current_balance is never negative after any sequence of calculate_rr
\* and release_expired calls.
C5_BalanceNeverNegative == current_balance >= 0

(***************************************************************************)
(* compare_fees (fee_verifier.py).  An Optional[Decimal] is <<>> for None  *)
(* and <<v>> for the value v.                                              *)
(***************************************************************************)
NoneVal == <<>>
Some(v) == <<v>>
IsNone(x) == x = <<>>
Val(x) == x[1]

\* difference_pct, in hundredths of a percent
DiffPct(difference, expected) ==
    IF expected # 0
    THEN IF expected > 0
         THEN QuantizeHalfUp(difference * 10000, expected)
         ELSE QuantizeHalfUp(-(difference * 10000), -expected)
    ELSE IF difference = 0 THEN 0 ELSE 10000

FeeStatusStrict(difference, tolerance) ==
    IF Abs(difference) < tolerance THEN "CORRECT"
    ELSE IF difference > tolerance THEN "OVERCHARGED"
    ELSE "UNDERCHARGED"

FeeStatus(difference, tolerance) ==
    IF Abs(difference) <= tolerance THEN "CORRECT"
    ELSE IF difference > tolerance THEN "OVERCHARGED"
    ELSE "UNDERCHARGED"

compare_fees(actual, expected, tolerance) ==
    IF IsNone(actual)
    THEN [status |-> "MISSING", difference |-> NoneVal,
          difference_pct |-> NoneVal, within_tolerance |-> FALSE]
    ELSE LET difference == Val(actual) - expected
             status == FeeStatus(difference, tolerance)
         IN  [status |-> status,
              difference |-> Some(difference),
              difference_pct |-> Some(DiffPct(difference, expected)),
              within_tolerance |-> (status = "CORRECT")]

DefaultTolerance == 1     \* tolerance: Decimal = Decimal("0.01")

CompareActuals == {NoneVal} \cup {Some(v) : v \in (9997..10003) \cup {0, 5000}}
CompareExpecteds == (9999..10002) \cup {0, 5000}
CompareTolerances == {0, DefaultTolerance, 2}

CompareInit ==
    /\ TrackerNew
    /\ pc = "compare_fees"
    /\ input \in [actual : CompareActuals, expected : CompareExpecteds,
                  tolerance : CompareTolerances]
    /\ output = <<>>

CompareFees ==
    /\ pc = "compare_fees"
    /\ pc' = "compare_fees:done"
    /\ output' = compare_fees(input.actual, input.expected, input.tolerance)
    /\ UNCHANGED <<input, trackerVars>>

CompareNext == CompareFees

SpecCompare == CompareInit /\ [][CompareNext]_vars

\* C6: compare_fees returns exactly one status: MISSING when actual is None;
\* CORRECT when |actual - expected| <= tolerance; OVERCHARGED when
\* actual - expected > tolerance; UNDERCHARGED otherwise; within_tolerance is
\* true exactly when the status is CORRECT.  (100.00, 100.01, 0.01) is
\* CORRECT, (100.00, 100.02, 0.01) is UNDERCHARGED, (None, 50.00) is MISSING.
C6_CompareFees ==
    pc = "compare_fees:done" =>
        LET a == input.actual
            e == input.expected
            t == input.tolerance
        IN  /\ output.status \in {"MISSING", "CORRECT", "OVERCHARGED", "UNDERCHARGED"}
            /\ (output.status = "MISSING") <=> IsNone(a)
            /\ ~IsNone(a) =>
                 LET d == Val(a) - e
                 IN  /\ (output.status = "CORRECT") <=> (d <= t /\ -d <= t)
                     /\ (output.status = "OVERCHARGED") <=> d > t
                     /\ (output.status = "UNDERCHARGED") <=> -d > t
            /\ output.within_tolerance <=> (output.status = "CORRECT")
            /\ (a = Some(10000) /\ e = 10001 /\ t = 1) => output.status = "CORRECT"
            /\ (a = Some(10000) /\ e = 10002 /\ t = 1) => output.status = "UNDERCHARGED"
            /\ (IsNone(a) /\ e = 5000 /\ t = DefaultTolerance) => output.status = "MISSING"

\* C6 witness: the call (100.00, 100.02, 0.01) has returned UNDERCHARGED.
C6_Witness ==
    /\ pc = "compare_fees:done"
    /\ input = [actual |-> Some(10000), expected |-> 10002, tolerance |-> 1]
    /\ output.status = "UNDERCHARGED"
    /\ ~output.within_tolerance

(***************************************************************************)
(* calculate_verification_confidence (fee_verifier.py).  Confidences are   *)
(* hundredths; the mean of three of them is exact in 1/300.                *)
(***************************************************************************)
Min(a, b) == IF a < b THEN a ELSE b
Max(a, b) == IF a > b THEN a ELSE b

\* field_confidence_scores.get(field, 0.0)
GetScore(scores, field) == IF field \in DOMAIN scores THEN scores[field] ELSE 0

relevant_fields == <<"amount", "commission", "rolling_reserve">>

\* penalties in 1/300: 0.2 is 60, 0.05 is 15, 0.3 is 90, 0.02 is 6, 0.1 is 30
LowConfidencePenalty(minimum) == IF minimum < 60 THEN 60 ELSE 0

AssumptionPenaltyUncapped(assumption_count) == assumption_count * 15

AssumptionPenalty(assumption_count) == Min(assumption_count * 15, 90)

ErrorPenalty(error_count) == Min(error_count * 6, 30)

\* round(x, 2) of x given in 1/300: thirds of a hundredth are never ties
Round2(x300) == (2 * x300 + 3) \div 6

calculate_verification_confidence(scores, assumption_count, error_count) ==
    LET s1 == GetScore(scores, relevant_fields[1])
        s2 == GetScore(scores, relevant_fields[2])
        s3 == GetScore(scores, relevant_fields[3])
        base_confidence == s1 + s2 + s3                 \* mean, in 1/300
        min_critical_confidence == Min(s1, Min(s2, s3))
        final_confidence ==
            Max(0, base_confidence
                   - LowConfidencePenalty(min_critical_confidence)
                   - AssumptionPenalty(assumption_count)
                   - ErrorPenalty(error_count))
    IN  Round2(final_confidence)

MaxAssumptions == 7      \* assumption_count ranges over 0..MaxAssumptions
MaxErrors == 6           \* error_count ranges over 0..MaxErrors
ScoreValues == {0, 50, 60, 70, 80, 90, 100}   \* scores the detector assigns
ScoreMaps ==
    UNION {[fields -> ScoreValues] :
             fields \in SUBSET {"amount", "commission", "rolling_reserve"}}

ConfidenceInit ==
    /\ TrackerNew
    /\ pc = "confidence"
    /\ input \in [scores : ScoreMaps,
                  assumption_count : 0..MaxAssumptions,
                  error_count : 0..MaxErrors]
    /\ output = <<>>

VerificationConfidence ==
    /\ pc = "confidence"
    /\ pc' = "confidence:done"
    /\ output' = calculate_verification_confidence(
                     input.scores, input.assumption_count, input.error_count)
    /\ UNCHANGED <<input, trackerVars>>

ConfidenceNext == VerificationConfidence

SpecConfidence == ConfidenceInit /\ [][ConfidenceNext]_vars

\* The aggregate confidence as the claim states it, in 1/300:
\* max(0, mean - (0.2 if any of the three < 0.6) - min(0.05 a, 0.3)
\*        - min(0.02 d, 0.1)), a missing field counting as 0.
ClaimedConfidence300(scores, a, d) ==
    LET c(f) == IF f \in DOMAIN scores THEN scores[f] ELSE 0
        cs == {c("amount"), c("commission"), c("rolling_reserve")}
        total == c("amount") + c("commission") + c("rolling_reserve")
        low == IF \E x \in cs : x < 60 THEN 60 ELSE 0
        pa == IF 15 * a < 90 THEN 15 * a ELSE 90
        pd == IF 6 * d < 30 THEN 6 * d ELSE 30
        v == total - low - pa - pd
    IN  IF v < 0 THEN 0 ELSE v

\* C8 (as claimed): the aggregate confidence equals the formula exactly and
\* lies in [0,1].
C8_ConfidenceEqualsFormula ==
    pc = "confidence:done" =>
        /\ 3 * output = ClaimedConfidence300(input.scores, input.assumption_count,
                                             input.error_count)
        /\ output >= 0 /\ output <= 100

\* C8 (amended): the aggregate confidence is the formula's value rounded to
\* 2 decimals (the nearest hundredth), and lies in [0,1].
C8_ConfidenceIsRoundedFormula ==
    pc = "confidence:done" =>
        LET exact == ClaimedConfidence300(input.scores, input.assumption_count,
                                          input.error_count)
        IN  /\ 2 * Abs(3 * output - exact) <= 3
            /\ output >= 0 /\ output <= 100

\* C8 witness: every penalty applies, the assumption penalty at its cap, and
\* the mean is not a whole number of hundredths.
C8_Witness ==
    /\ pc = "confidence:done"
    /\ input.scores = [amount |-> 100, commission |-> 100, rolling_reserve |-> 50]
    /\ input.assumption_count = MaxAssumptions
    /\ input.error_count = 2
    /\ output = 29

(***************************************************************************)
(* calculate_remuneration (fee_calculator.py)                              *)
(***************************************************************************)
RemunerationFeeTruncated(amount, rate) == (amount * rate) \div 1000

RemunerationFee(amount, rate) == QuantizeHalfUp(amount * rate, 1000)

calculate_remuneration(amount, rate) ==
    [fee |-> RemunerationFee(amount, rate), amount |-> amount, rate |-> rate]

MaxRepeats == 3          \* repeated calls with the same arguments
RemunerationAmounts == {-750, -125} \cup (0..20) \cup {125, 750, 1013, 100000}
RemunerationRates == {38, 100}

RemunerationInit ==
    /\ TrackerNew
    /\ pc = "remuneration"
    /\ input \in [amount : RemunerationAmounts, rate : RemunerationRates]
    /\ output = <<>>

CalculateRemuneration ==
    /\ pc = "remuneration"
    /\ Len(output) < MaxRepeats
    /\ output' = Append(output, calculate_remuneration(input.amount, input.rate).fee)
    /\ UNCHANGED <<pc, input, trackerVars>>

RemunerationNext == CalculateRemuneration

SpecRemuneration == RemunerationInit /\ [][RemunerationNext]_vars

\* C10: the expected remuneration is amount x remuneration_rate rounded
\* half-up to 2 decimals (the nearest cent, a tie going away from zero); for
\* amount = 1000 and rate = 0.038 it is 38.00; every repetition of the call
\* returns the same value.
C10_Remuneration ==
    pc = "remuneration" =>
        \A i \in 1..Len(output) :
            LET fee == output[i]
                exact == input.amount * input.rate      \* in 1/1000 of a cent
                err == Abs(1000 * fee - exact)
            IN  /\ 2 * err <= 1000
                /\ (2 * err = 1000 => Abs(1000 * fee) > Abs(exact))
                /\ (input.amount = 100000 /\ input.rate = 38 => fee = 3800)
                /\ fee = output[1]

\* C10 witness: calculate_remuneration(1000, 0.038) was repeated MaxRepeats
\* times and the last call returned 38.00.
C10_Witness ==
    /\ pc = "remuneration"
    /\ input = [amount |-> 100000, rate |-> 38]
    /\ Len(output) = MaxRepeats
    /\ output[MaxRepeats] = 3800

(***************************************************************************)
(* verify_transaction_fees (fee_verifier.py).  A detected column is a key  *)
(* of the row (detection runs on the keys of the sheet's first row, and    *)
(* every row of a sheet has the same keys); its cell is given as           *)
(* parse_decimal returns it.                                               *)
(***************************************************************************)
ContractualChargebackFee == 5000    \* qty * Decimal("50.00")
ContractualRefundFee == 500         \* qty * Decimal("5.00")
QuestionableBelow == 70             \* elif confidence < 0.7

\* not within tolerance and not missing: counted in error_count
IsError(comparison) ==
    ~comparison.within_tolerance /\ comparison.status # "MISSING"

\* a fee whose column was detected by name (remuneration, rolling reserve)
ColumnVerification(c, expected, tolerance) ==
    LET actual == IF c.col THEN c.actual ELSE NoneVal
    IN  [verification |-> Some(compare_fees(actual, expected, tolerance)),
         assumptions |-> IF c.col THEN 0 ELSE 1]

\* chargeback and refund: quantity x contractual fee when both the quantity
\* and the fee-collected column exist, else the calculator's expected fee
FlatFeeVerification(c, expected_fee, contractual_fee, tolerance) ==
    IF c.qty_col /\ c.collected_col
    THEN IF ~IsNone(c.qty) /\ Val(c.qty) > 0
         THEN [verification |->
                   Some(compare_fees(c.collected, Val(c.qty) * contractual_fee,
                                     tolerance)),
               assumptions |-> 0]
         ELSE [verification |-> NoneVal, assumptions |-> 0]
    ELSE IF expected_fee > 0
         THEN LET actual == IF c.fee_col THEN c.fee ELSE NoneVal
              IN  [verification |-> Some(compare_fees(actual, expected_fee, tolerance)),
                   assumptions |-> IF c.fee_col THEN 0 ELSE 1]
         ELSE [verification |-> NoneVal, assumptions |-> 0]

ErrorsOf(v) == IF ~IsNone(v.verification) /\ IsError(Val(v.verification)) THEN 1 ELSE 0

OverallStatus(error_count, confidence) ==
    IF error_count = 0 THEN "CORRECT"
    ELSE IF confidence < QuestionableBelow THEN "QUESTIONABLE"
    ELSE "HAS_ERRORS"

verify_transaction_fees(t) ==
    LET tx_id_confidence == GetScore(t.scores, "transaction_id")
        use_id == t.tx_id.col /\ t.tx_id.value /\ tx_id_confidence >= 70
        tx_assumptions ==
            IF ~use_id /\ tx_id_confidence < 70 /\ t.tx_id.col THEN 1 ELSE 0
        rem == ColumnVerification(t.commission, t.expected.remuneration, t.tolerance)
        rr == ColumnVerification(t.rolling_reserve, t.expected.rolling_reserve,
                                 t.tolerance)
        cb == FlatFeeVerification(t.chargeback, t.expected.chargeback,
                                  ContractualChargebackFee, t.tolerance)
        rf == FlatFeeVerification(t.refund, t.expected.refund,
                                  ContractualRefundFee, t.tolerance)
        error_count == ErrorsOf(rem) + ErrorsOf(rr) + ErrorsOf(cb) + ErrorsOf(rf)
        assumptions == tx_assumptions + rem.assumptions + rr.assumptions
                       + cb.assumptions + rf.assumptions
        confidence == calculate_verification_confidence(t.scores, assumptions,
                                                        error_count)
    IN  [transaction_id |-> IF use_id THEN "id" ELSE "row",
         verifications |-> [remuneration |-> rem.verification,
                            rolling_reserve |-> rr.verification,
                            chargeback |-> cb.verification,
                            refund |-> rf.verification],
         \* verifications["rolling_reserve"]["expected"]
         expected_rolling_reserve |-> t.expected.rolling_reserve,
         overall_status |-> OverallStatus(error_count, confidence),
         error_count |-> error_count,
         confidence |-> confidence,
         assumptions |-> assumptions]

TxIdCases ==
    {[col |-> FALSE, value |-> FALSE], [col |-> TRUE, value |-> FALSE],
     [col |-> TRUE, value |-> TRUE]}
ColumnCases(values) ==
    {[col |-> FALSE, actual |-> NoneVal]}
    \cup {[col |-> TRUE, actual |-> a] : a \in {NoneVal} \cup {Some(v) : v \in values}}
FlatFeeCases(unit) ==
    {[qty_col |-> TRUE, collected_col |-> TRUE, qty |-> q, collected |-> c,
      fee_col |-> FALSE, fee |-> NoneVal] :
        q \in {Some(0), Some(1)}, c \in {NoneVal, Some(unit), Some(unit + 200)}}
    \cup {[qty_col |-> FALSE, collected_col |-> FALSE, qty |-> NoneVal,
           collected |-> NoneVal, fee_col |-> FALSE, fee |-> NoneVal]}
    \cup {[qty_col |-> FALSE, collected_col |-> FALSE, qty |-> NoneVal,
           collected |-> NoneVal, fee_col |-> TRUE, fee |-> f] :
              f \in {NoneVal, Some(unit), Some(unit - 100)}}
VerifyScores ==
    [transaction_id : {60, 100}, amount : {50, 70, 100},
     commission : {70, 100}, rolling_reserve : {0, 100}]
VerifyExpected ==
    [remuneration : {50}, rolling_reserve : {50},
     chargeback : {0, ContractualChargebackFee}, refund : {ContractualRefundFee}]

VerifyInit ==
    /\ TrackerNew
    /\ pc = "verify"
    /\ input \in [tx_id : TxIdCases,
                  commission : ColumnCases({48, 51, 52}),
                  rolling_reserve : ColumnCases({50, 52}),
                  chargeback : FlatFeeCases(ContractualChargebackFee),
                  refund : {c \in FlatFeeCases(ContractualRefundFee) :
                              \/ c.fee # NoneVal
                              \/ c.qty = Some(1) /\ c.collected # NoneVal},
                  expected : VerifyExpected,
                  scores : VerifyScores,
                  tolerance : {DefaultTolerance}]
    /\ output = <<>>

VerifyTransactionFees ==
    /\ pc = "verify"
    /\ pc' = "verify:done"
    /\ output' = verify_transaction_fees(input)
    /\ UNCHANGED <<input, trackerVars>>

VerifyNext == VerifyTransactionFees

SpecVerify == VerifyInit /\ [][VerifyNext]_vars

\* C7: the overall status of a transaction verification is CORRECT when it
\* has zero discrepancies; otherwise QUESTIONABLE when its aggregate
\* confidence is below 0.5; otherwise HAS_ERRORS.
C7_OverallStatus ==
    pc = "verify:done" =>
        output.overall_status =
            IF output.error_count = 0 THEN "CORRECT"
            ELSE IF output.confidence < 50 THEN "QUESTIONABLE"
            ELSE "HAS_ERRORS"

(***************************************************************************)
(* Batch verification: DintaresFeeVerificationAgent.verify_transactions    *)
(* (core.py), with calculate_expected_fees (fee_calculator.py),            *)
(* calculate_expected_rr (rr_calculator.py) and parse_decimal              *)
(* (excel_loader.py).                                                      *)
(*                                                                         *)
(* A cell of a row is empty, a number (cents), text that is not a number,  *)
(* or a number too large for Decimal's 28 digits of precision (1e30,       *)
(* "Infinity"), on which quantize raises decimal.InvalidOperation; a row   *)
(* may also lack the key of a column altogether.                           *)
(***************************************************************************)
NoCell == [kind |-> "none", v |-> 0]
AbsentCell == [kind |-> "absent", v |-> 0]
TextCell == [kind |-> "text", v |-> 0]
HugeCell == [kind |-> "huge", v |-> 0]
Num(v) == [kind |-> "num", v |-> v]

\* parse_decimal: None for an empty cell and for text that is not a number
\* (transaction.get of a key the row lacks is None as well)
parse_decimal(cell) == IF cell.kind \in {"text", "absent"} THEN NoCell ELSE cell

\* `column in transaction`
InRow(cell) == cell.kind # "absent"

\* Python truthiness of a raw cell, and `value is not None and value != 0`
Truthy(cell) == cell.kind \in {"text", "huge"} \/ (cell.kind = "num" /\ cell.v # 0)
PresentNonZero(cell) ==
    cell.kind \notin {"none", "absent"} /\ ~(cell.kind = "num" /\ cell.v = 0)

\* the option value verify_transaction_fees reads from a finite parsed cell
AsOption(cell) == IF cell.kind = "num" THEN Some(cell.v) ELSE NoneVal

\* the loaded contract; its rolling reserve cap is 75.00 (the sample contract
\* has 37,500.00), so that the reserve of a 1,000.00 row exceeds it
contract ==
    [remuneration_rate |-> 38, chargeback_cost |-> 5000, refund_cost |-> 500,
     rolling_reserve_rate |-> 100, rolling_reserve_cap |-> 7500]

calculate_chargeback_fee(is_chargeback, cost) == IF is_chargeback THEN cost ELSE 0
calculate_refund_fee(is_refund, cost) == IF is_refund THEN cost ELSE 0

calculate_expected_rr_uncapped(amount, rate, rr_cap) ==
    QuantizeHalfUp(amount * rate, 1000)

\* calculate_expected_rr: the stateless per-transaction reserve
calculate_expected_rr(amount, rate, rr_cap) ==
    LET rr_amount == QuantizeHalfUp(amount * rate, 1000)
    IN  IF rr_amount > rr_cap THEN rr_cap ELSE rr_amount

ZeroFeesAmountNote(note) ==
    [raised |-> FALSE, remuneration |-> 0, chargeback |-> 0, refund |-> 0,
     total_fees |-> 0, missing_data |-> <<"amount">>]

ZeroFees(note) ==
    [raised |-> FALSE, remuneration |-> 0, chargeback |-> 0, refund |-> 0,
     total_fees |-> 0, missing_data |-> <<note>>]

\* `confidence >= 0.7`: the column is trusted
HighConfidenceStrict(confidence) == confidence > 70

HighConfidence(confidence) == confidence >= 70

\* calculate_expected_fees(transaction, contract, detected_columns,
\* confidence_scores); raised: the quantize of calculate_remuneration raised
calculate_expected_fees(transaction, detected_columns, confidence_scores) ==
    IF ~detected_columns.amount \/ ~InRow(transaction.amount)
    THEN ZeroFees("amount")
    ELSE LET amount == parse_decimal(transaction.amount)
         IN  IF amount.kind = "none"
             THEN ZeroFees("amount (invalid value)")
             ELSE IF amount.kind = "huge"
             THEN [raised |-> TRUE, remuneration |-> 0, chargeback |-> 0,
                   refund |-> 0, total_fees |-> 0, missing_data |-> <<>>]
             ELSE LET remuneration_fee ==
                          calculate_remuneration(amount.v,
                                                 contract.remuneration_rate).fee
                      is_chargeback ==
                          /\ detected_columns.chargeback_fee
                          /\ HighConfidence(GetScore(confidence_scores,
                                                     "chargeback_fee"))
                          /\ InRow(transaction.chargeback_fee)
                          /\ PresentNonZero(transaction.chargeback_fee)
                      is_refund ==
                          /\ detected_columns.refund_fee
                          /\ HighConfidence(GetScore(confidence_scores, "refund_fee"))
                          /\ InRow(transaction.refund_fee)
                          /\ PresentNonZero(transaction.refund_fee)
                      chargeback_fee ==
                          calculate_chargeback_fee(is_chargeback,
                                                   contract.chargeback_cost)
                      refund_fee ==
                          calculate_refund_fee(is_refund, contract.refund_cost)
                  IN  [raised |-> FALSE,
                       remuneration |-> remuneration_fee,
                       chargeback |-> chargeback_fee,
                       refund |-> refund_fee,
                       total_fees |-> remuneration_fee + chargeback_fee + refund_fee,
                       missing_data |-> <<>>]

ExpectedRollingReserveUncapped(transaction, detected_columns) ==
    LET amount_str == IF detected_columns.amount THEN transaction.amount ELSE NoCell
        amount == parse_decimal(amount_str)
    IN  IF Truthy(amount_str) /\ amount.kind = "num" /\ amount.v # 0
        THEN QuantizeHalfUp(amount.v * contract.rolling_reserve_rate, 1000)
        ELSE 0

\* expected_fees["rolling_reserve"] as the loop sets it; 0 when it does not
\* (the key stays absent and verify_transaction_fees reads the default)
ExpectedRollingReserve(transaction, detected_columns) ==
    LET amount_str == IF detected_columns.amount THEN transaction.amount ELSE NoCell
        amount == parse_decimal(amount_str)
    IN  IF Truthy(amount_str) /\ amount.kind = "num" /\ amount.v # 0
        THEN calculate_expected_rr(amount.v, contract.rolling_reserve_rate,
                                   contract.rolling_reserve_cap)
        ELSE 0

NoFlatFee ==
    [qty_col |-> FALSE, collected_col |-> FALSE, qty |-> NoneVal,
     collected |-> NoneVal, fee_col |-> FALSE, fee |-> NoneVal]

\* one iteration of the loop body for a row: the verification, or raised
VerifyRow(transaction, detected_columns, confidence_scores) ==
    LET expected_fees ==
            calculate_expected_fees(transaction, detected_columns, confidence_scores)
    IN  IF expected_fees.raised
        THEN [raised |-> TRUE, verification |-> <<>>]
        ELSE [raised |-> FALSE,
              verification |->
                verify_transaction_fees(
                  [tx_id |-> [col |-> FALSE, value |-> FALSE],
                   commission |->
                     [col |-> detected_columns.commission,
                      actual |-> AsOption(parse_decimal(transaction.commission))],
                   rolling_reserve |-> [col |-> FALSE, actual |-> NoneVal],
                   chargeback |-> NoFlatFee,
                   refund |-> NoFlatFee,
                   expected |->
                     [remuneration |-> expected_fees.remuneration,
                      rolling_reserve |->
                        ExpectedRollingReserve(transaction, detected_columns),
                      chargeback |-> expected_fees.chargeback,
                      refund |-> expected_fees.refund],
                   scores |-> confidence_scores,
                   tolerance |-> DefaultTolerance])]

MaxRows == 2             \* rows of a sheet
BatchRow ==
    [amount : {NoCell, TextCell, Num(0), Num(50000), Num(100000), HugeCell},
     commission : {NoCell, Num(3800), Num(5)},
     chargeback_fee : {NoCell}, refund_fee : {NoCell}]
BatchSheets == UNION {[1..n -> BatchRow] : n \in 1..MaxRows}
BatchDetected ==
    [amount : BOOLEAN, commission : {TRUE}, chargeback_fee : {FALSE},
     refund_fee : {FALSE}]

BatchInit ==
    /\ TrackerNew
    /\ pc = "batch:loop"
    /\ input \in [transactions : BatchSheets,
                  detected_columns : BatchDetected,
                  confidence_scores : {[amount |-> 100, commission |-> 100]}]
    /\ output = [i |-> 1, verifications |-> <<>>]

\* one iteration of `for i, transaction in enumerate(transactions, 1)`: no
\* try/except surrounds calculate_expected_fees or verify_transaction_fees,
\* so an exception leaves verify_transactions and the list built so far is
\* lost (verify_all_sheets catches it and skips the whole sheet)
VerifyNextRow ==
    /\ pc = "batch:loop"
    /\ output.i <= Len(input.transactions)
    /\ LET r == VerifyRow(input.transactions[output.i], input.detected_columns,
                          input.confidence_scores)
       IN  IF r.raised
           THEN /\ pc' = "batch:raised"
                /\ output' = [i |-> output.i, verifications |-> <<>>]
           ELSE /\ pc' = pc
                /\ output' = [i |-> output.i + 1,
                              verifications |->
                                  Append(output.verifications, r.verification)]
    /\ UNCHANGED <<input, trackerVars>>

ReturnVerifications ==
    /\ pc = "batch:loop"
    /\ output.i > Len(input.transactions)
    /\ pc' = "batch:returned"
    /\ UNCHANGED <<input, output, trackerVars>>

BatchNext ==
    \/ VerifyNextRow
    \/ ReturnVerifications

SpecBatch == BatchInit /\ [][BatchNext]_vars

\* C9: in verify_transactions a failure while verifying one row does not
\* abort the batch: the batch returns, with one entry per input row.
C9_BatchSurvivesRowFailure ==
    pc \in {"batch:returned", "batch:raised"} =>
        /\ pc = "batch:returned"
        /\ Len(output.verifications) = Len(input.transactions)

(***************************************************************************)
(* Expected fees of a row: the step of verify_transactions that documents  *)
(* skipped fee types (core.py), then calculate_expected_fees               *)
(* (fee_calculator.py) for the row.                                        *)
(***************************************************************************)
\* `not detected_columns.get(field) or confidence < 0.7`
FeeTypeSkippedUndetectedOnly(detected, confidence) == ~detected

FeeTypeSkipped(detected, confidence) == ~detected \/ confidence < 70

\* the entries verify_transactions appends to self.detection_assumptions
SkippedFeeAssumptions(detected_columns, confidence_scores) ==
    (IF FeeTypeSkipped(detected_columns.chargeback_fee,
                       GetScore(confidence_scores, "chargeback_fee"))
     THEN <<"Chargeback verification skipped">> ELSE <<>>)
    \o
    (IF FeeTypeSkipped(detected_columns.refund_fee,
                       GetScore(confidence_scores, "refund_fee"))
     THEN <<"Refund verification skipped">> ELSE <<>>)

FeesRow ==
    [amount : {AbsentCell, NoCell, TextCell, Num(0), Num(100000), HugeCell},
     commission : {NoCell},
     chargeback_fee : {AbsentCell, NoCell, TextCell, Num(0), Num(5000)},
     refund_fee : {NoCell, Num(0), Num(500)}]
FeesDetected ==
    [amount : BOOLEAN, commission : {TRUE}, chargeback_fee : BOOLEAN,
     refund_fee : BOOLEAN]
\* confidence_scores: a key may be missing (None and {} are the empty map)
FeesScores ==
    UNION {[fields -> {60, 70, 100}] : fields \in SUBSET {"chargeback_fee", "refund_fee"}}

FeesInit ==
    /\ TrackerNew
    /\ pc = "fees:document"
    /\ input \in [transaction : FeesRow, detected_columns : FeesDetected,
                  confidence_scores : FeesScores]
    /\ output = [detection_assumptions |-> <<>>, fees |-> <<>>]

DocumentSkippedFees ==
    /\ pc = "fees:document"
    /\ pc' = "fees:calculate"
    /\ output' = [output EXCEPT !.detection_assumptions =
                      @ \o SkippedFeeAssumptions(input.detected_columns,
                                                 input.confidence_scores)]
    /\ UNCHANGED <<input, trackerVars>>

CalculateExpectedFees ==
    /\ pc = "fees:calculate"
    /\ pc' = "fees:done"
    /\ output' = [output EXCEPT !.fees =
                      calculate_expected_fees(input.transaction,
                                              input.detected_columns,
                                              input.confidence_scores)]
    /\ UNCHANGED <<input, trackerVars>>

FeesNext ==
    \/ DocumentSkippedFees
    \/ CalculateExpectedFees

SpecFees == FeesInit /\ [][FeesNext]_vars

\* the conditions of the claims, read off the arguments
FeesReturned == pc = "fees:done" /\ ~output.fees.raised
AmountAbsent ==
    ~input.detected_columns.amount \/ input.transaction.amount.kind = "absent"
AmountUnparsed == ~AmountAbsent /\ input.transaction.amount.kind \in {"none", "text"}
ScoreOf(field) ==
    IF field \in DOMAIN input.confidence_scores
    THEN input.confidence_scores[field] ELSE 0
FlatFeeDue(field) ==
    /\ input.detected_columns[field]
    /\ ScoreOf(field) >= 70
    /\ input.transaction[field].kind \in {"num", "text", "huge"}
    /\ ~(input.transaction[field].kind = "num" /\ input.transaction[field].v = 0)
FeeNotes == {"amount", "amount (invalid value)"}

C12_SkipNotedInMissingData ==
    FeesReturned =>
        /\ (input.detected_columns.chargeback_fee /\ ScoreOf("chargeback_fee") < 70) =>
              /\ output.fees.chargeback = 0
              /\ \E i \in 1..Len(output.fees.missing_data) :
                    output.fees.missing_data[i] \notin FeeNotes
        /\ (input.detected_columns.refund_fee /\ ScoreOf("refund_fee") < 70) =>
              /\ output.fees.refund = 0
              /\ \E i \in 1..Len(output.fees.missing_data) :
                    output.fees.missing_data[i] \notin FeeNotes

\* the notes of a sequence, as a set
Notes(seq) == {seq[i] : i \in 1..Len(seq)}

\* C12 (amended): when a detected chargeback (or refund) column has
\* confidence below 0.7, calculate_expected_fees skips the fee type (the fee
\* is 0) and its missing_data holds no note about it; the skip is recorded by
\* verify_transactions as an entry of the agent's detection_assumptions.
C12_SkipNotedInDetectionAssumptions ==
    FeesReturned =>
        /\ Notes(output.fees.missing_data) \subseteq FeeNotes
        /\ (input.detected_columns.chargeback_fee /\ ScoreOf("chargeback_fee") < 70) =>
              /\ output.fees.chargeback = 0
              /\ "Chargeback verification skipped" \in Notes(output.detection_assumptions)
        /\ (input.detected_columns.refund_fee /\ ScoreOf("refund_fee") < 70) =>
              /\ output.fees.refund = 0
              /\ "Refund verification skipped" \in Notes(output.detection_assumptions)

\* C12 witness: a detected chargeback column at confidence 0.6 holds a fee on
\* a row whose amount parses; the fee type was skipped.
C12_Witness ==
    /\ FeesReturned
    /\ input.detected_columns.chargeback_fee /\ ScoreOf("chargeback_fee") = 60
    /\ input.transaction.chargeback_fee = Num(5000)
    /\ input.transaction.amount = Num(100000) /\ input.detected_columns.amount
    /\ output.fees.chargeback = 0
    /\ output.fees.missing_data = <<>>
    /\ output.detection_assumptions = <<"Chargeback verification skipped">>

\* C13 (as claimed): if the amount column is absent from the row or its
\* value cannot be parsed, the result has remuneration, chargeback, refund
\* and total equal to zero and missing_data = ["amount"], and nothing raises.
C13_AmountMissingDegradesToZero ==
    (pc = "fees:done" /\ (AmountAbsent \/ AmountUnparsed)) =>
        /\ ~output.fees.raised
        /\ output.fees.remuneration = 0 /\ output.fees.chargeback = 0
        /\ output.fees.refund = 0 /\ output.fees.total_fees = 0
        /\ output.fees.missing_data = <<"amount">>

\* C13 (amended): as claimed, except that missing_data is ["amount"] when
\* the column is absent and ["amount (invalid value)"] when the value cannot
\* be parsed.
C13_AmountMissingDegradesToZeroWithNote ==
    (pc = "fees:done" /\ (AmountAbsent \/ AmountUnparsed)) =>
        /\ ~output.fees.raised
        /\ output.fees.remuneration = 0 /\ output.fees.chargeback = 0
        /\ output.fees.refund = 0 /\ output.fees.total_fees = 0
        /\ output.fees.missing_data =
               IF AmountAbsent THEN <<"amount">> ELSE <<"amount (invalid value)">>

\* C13 witness: the amount cell holds text that is not a number, next to a
\* trusted chargeback column with a fee in it.
C13_Witness ==
    /\ pc = "fees:done"
    /\ input.detected_columns.amount /\ input.transaction.amount = TextCell
    /\ FlatFeeDue("chargeback_fee")
    /\ output.fees.total_fees = 0
    /\ output.fees.missing_data = <<"amount (invalid value)">>

(***************************************************************************)
(* Column detection (field_detector.py): calculate_match_confidence,       *)
(* levenshtein_distance and detect_fee_columns.  A string is the sequence  *)
(* of its characters.                                                      *)
(***************************************************************************)
MaxLen == 4
MaxColumns == 3

\* str.lower() and str.strip() on the characters the headers are drawn from
LowerChar(c) == IF c = "B" THEN "b" ELSE c
Lower(s) == [i \in 1..Len(s) |-> LowerChar(s[i])]
RECURSIVE LStrip(_)
LStrip(s) == IF s # <<>> /\ Head(s) = " " THEN LStrip(Tail(s)) ELSE s
RECURSIVE RStrip(_)
RStrip(s) ==
    IF s # <<>> /\ s[Len(s)] = " " THEN RStrip(SubSeq(s, 1, Len(s) - 1)) ELSE s
Strip(s) == LStrip(RStrip(s))
Replace(s, old, new) == [i \in 1..Len(s) |-> IF s[i] = old THEN new ELSE s[i]]

\* normalize_header for a header that is not in RUSSIAN_HEADER_MAP
normalize_header(header) == Replace(Strip(Lower(header)), " ", "_")

StartsWith(column, pattern) ==
    Len(pattern) <= Len(column) /\ SubSeq(column, 1, Len(pattern)) = pattern
EndsWith(column, pattern) ==
    /\ Len(pattern) <= Len(column)
    /\ SubSeq(column, Len(column) - Len(pattern) + 1, Len(column)) = pattern
Contains(column, pattern) ==
    \E i \in 1..(Len(column) + 1) :
        /\ i + Len(pattern) - 1 <= Len(column)
        /\ SubSeq(column, i, i + Len(pattern) - 1) = pattern

Min3(a, b, c) == Min(a, Min(b, c))

\* one row of the dynamic programme: current_row grows from [i + 1]
RECURSIVE NextRow(_, _, _, _)
NextRow(previous_row, c1, s2, current_row) ==
    LET k == Len(current_row) IN
    IF k > Len(s2) THEN current_row
    ELSE LET insertions == previous_row[k + 1] + 1
             deletions == current_row[k] + 1
             substitutions == previous_row[k] + (IF c1 # s2[k] THEN 1 ELSE 0)
         IN NextRow(previous_row, c1, s2,
                    Append(current_row, Min3(insertions, deletions, substitutions)))

RECURSIVE LevenshteinRows(_, _, _, _)
LevenshteinRows(s1, s2, i, previous_row) ==
    IF i > Len(s1) THEN previous_row
    ELSE LET current_row == NextRow(previous_row, s1[i], s2, <<i>>) IN
         \* the row is complete before it becomes previous_row
         IF Len(current_row) = Len(s2) + 1
         THEN LevenshteinRows(s1, s2, i + 1, current_row)
         ELSE <<>>

levenshtein_distance(s1, s2) ==
    LET long == IF Len(s1) < Len(s2) THEN s2 ELSE s1
        short == IF Len(s1) < Len(s2) THEN s1 ELSE s2
    IN IF Len(short) = 0 THEN Len(long)
       ELSE LevenshteinRows(long, short, 1,
                            [k \in 1..(Len(short) + 1) |-> k - 1])[Len(short) + 1]

FuzzyConfidenceLoose(distance) == IF distance <= 3 THEN 60 ELSE 0

FuzzyConfidence(distance) ==
    IF distance <= 2 THEN 60 ELSE IF distance = 3 THEN 50 ELSE 0

calculate_match_confidence(pattern0, column0) ==
    LET pattern == Strip(Lower(pattern0))
        column == Strip(Lower(column0))
    IN IF pattern = column THEN 100
       ELSE IF StartsWith(column, pattern) THEN 90
       ELSE IF EndsWith(column, pattern) THEN 80
       ELSE IF Contains(column, pattern) THEN 70
       ELSE FuzzyConfidence(levenshtein_distance(pattern, column))

\* FEE_COLUMN_PATTERNS; a string is the sequence of its characters, a
\* character outside ASCII is written as its code point
FieldTypes ==
    <<"transaction_id", "amount", "commission", "rolling_reserve",
      "chargeback_fee", "refund_fee", "chargeback_qty", "chargeback_fee_collected",
      "refund_qty", "refund_fee_collected", "date", "status">>
FEE_COLUMN_PATTERNS ==
    [transaction_id |->
        <<<<"t", "r", "a", "n", "s", "a", "c", "t", "i", "o", "n", "_", "i", "d">>,
          <<"i", "d">>,
          <<"U+043D", "U+043E", "U+043C", "U+0435", "U+0440">>,
          <<"o", "r", "d", "e", "r", "_", "i", "d">>,
          <<"t", "x", "_", "i", "d">>,
          <<"t", "r", "a", "n", "s", "a", "c", "t", "i", "o", "n", "i", "d">>>>,
     amount |->
        <<<<"a", "m", "o", "u", "n", "t">>,
          <<"U+0441", "U+0443", "U+043C", "U+043C", "U+0430">>,
          <<"U+043E", "U+0431", "U+043E", "U+0440", "U+043E", "U+0442">>,
          <<"t", "r", "a", "n", "s", "a", "c", "t", "i", "o", "n", "_", "a", "m", "o", "u", "n", "t">>,
          <<"a", "m", "t">>,
          <<"s", "u", "m">>,
          <<"t", "o", "t", "a", "l">>>>,
     commission |->
        <<<<"c", "o", "m", "m", "i", "s", "s", "i", "o", "n">>,
          <<"U+043A", "U+043E", "U+043C", "U+0438", "U+0441", "U+0441", "U+0438", "U+044F">>,
          <<"U+0432", "U+043E", "U+0437", "U+043D", "U+0430", "U+0433", "U+0440", "U+0430", "U+0436", "U+0434", "U+0435", "U+043D", "U+0438", "U+0435">>,
          <<"f", "e", "e">>,
          <<"c", "h", "a", "r", "g", "e">>,
          <<"c", "o", "m", "m", "i", "s", "s", "i", "o", "n", "_", "e", "u", "r">>,
          <<"p", "r", "o", "c", "e", "s", "s", "i", "n", "g", "_", "f", "e", "e">>>>,
     rolling_reserve |->
        <<<<"r", "o", "l", "l", "i", "n", "g", "_", "r", "e", "s", "e", "r", "v", "e">>,
          <<"r", "r">>,
          <<"r", "e", "s", "e", "r", "v", "e">>,
          <<"U+0440", "U+0435", "U+0437", "U+0435", "U+0440", "U+0432">>,
          <<"r", "o", "l", "l", "i", "n", "g", "_", "r", "e", "s">>,
          <<"r", "r", "_", "a", "m", "o", "u", "n", "t">>,
          <<"r", "e", "s", "e", "r", "v", "e", "f", "u", "n", "d">>,
          <<"U+0440", "U+0435", "U+0437", "U+0435", "U+0440", "U+0432", "U+0444", "U+043E", "U+043D", "U+0434">>>>,
     chargeback_fee |->
        <<<<"c", "h", "a", "r", "g", "e", "b", "a", "c", "k">>,
          <<"U+0447", "U+0430", "U+0440", "U+0434", "U+0436", "U+0431", "U+044D", "U+043A">>,
          <<"c", "b", "_", "f", "e", "e">>,
          <<"c", "h", "b">>,
          <<"c", "h", "a", "r", "g", "e", "b", "a", "c", "k", "_", "f", "e", "e">>,
          <<"c", "b">>>>,
     refund_fee |->
        <<<<"r", "e", "f", "u", "n", "d">>,
          <<"U+0432", "U+043E", "U+0437", "U+0432", "U+0440", "U+0430", "U+0442">>,
          <<"r", "e", "f", "u", "n", "d", "_", "f", "e", "e">>,
          <<"r", "e", "f">>,
          <<"r", "e", "f", "u", "n", "d", "_", "a", "m", "o", "u", "n", "t">>>>,
     chargeback_qty |->
        <<<<"c", "h", "a", "r", "g", "e", "b", "a", "c", "k", "_", "q", "t", "y">>,
          <<"c", "h", "b", "_", "q", "t", "y">>,
          <<"c", "h", "b", "_", "U+043A", "U+043E", "U+043B", "-", "U+0432", "U+043E">>,
          <<"c", "h", "a", "r", "g", "e", "b", "a", "c", "k", "_", "q", "u", "a", "n", "t", "i", "t", "y">>>>,
     chargeback_fee_collected |->
        <<<<"c", "h", "a", "r", "g", "e", "b", "a", "c", "k", "_", "f", "e", "e", "_", "c", "o", "l", "l", "e", "c", "t", "e", "d">>,
          <<"c", "h", "b", "_", "f", "i", "x", "_", "5", "0", "_", "e", "u", "r", "o">>,
          <<"c", "h", "b", "_", "f", "e", "e", "_", "a", "c", "t", "u", "a", "l">>,
          <<"f", "i", "x", "_", "5", "0", "_", "e", "u", "r", "o">>>>,
     refund_qty |->
        <<<<"r", "e", "f", "u", "n", "d", "_", "q", "t", "y">>,
          <<"r", "e", "f", "u", "n", "d", "_", "U+043A", "U+043E", "U+043B", "-", "U+0432", "U+043E">>,
          <<"r", "e", "f", "u", "n", "d", "_", "q", "u", "a", "n", "t", "i", "t", "y">>>>,
     refund_fee_collected |->
        <<<<"r", "e", "f", "u", "n", "d", "_", "f", "e", "e", "_", "c", "o", "l", "l", "e", "c", "t", "e", "d">>,
          <<"r", "e", "f", "u", "n", "d", "_", "f", "i", "x", "_", "5", "_", "e", "u", "r", "o">>,
          <<"r", "e", "f", "u", "n", "d", "_", "f", "e", "e", "_", "a", "c", "t", "u", "a", "l">>,
          <<"f", "i", "x", "_", "5", "_", "e", "u", "r", "o">>>>,
     date |->
        <<<<"d", "a", "t", "e">>,
          <<"U+0434", "U+0430", "U+0442", "U+0430">>,
          <<"c", "r", "e", "a", "t", "e", "d">>,
          <<"t", "i", "m", "e", "s", "t", "a", "m", "p">>,
          <<"t", "r", "a", "n", "s", "a", "c", "t", "i", "o", "n", "_", "d", "a", "t", "e">>,
          <<"c", "r", "e", "a", "t", "e", "d", "_", "a", "t">>>>,
     status |->
        <<<<"s", "t", "a", "t", "u", "s">>,
          <<"U+0441", "U+0442", "U+0430", "U+0442", "U+0443", "U+0441">>,
          <<"s", "t", "a", "t", "e">>,
          <<"t", "r", "a", "n", "s", "a", "c", "t", "i", "o", "n", "_", "s", "t", "a", "t", "u", "s">>>>]
Name_amount == <<"a", "m", "o", "u", "n", "t">>
Name_commission == <<"c", "o", "m", "m", "i", "s", "s", "i", "o", "n">>
Name_date == <<"d", "a", "t", "e">>
Name_transaction_id == <<"t", "r", "a", "n", "s", "a", "c", "t", "i", "o", "n", "_", "i", "d">>
Name_total == <<"t", "o", "t", "a", "l">>
Name_fee == <<"f", "e", "e">>

ColumnNames ==
    {Name_amount, Name_commission, Name_date, Name_transaction_id, Name_total,
     Name_fee}

\* calculate_match_confidence of every pattern against every column name the
\* sheets are drawn from, worked out once
MatchConfidences ==
    [column \in ColumnNames |->
        [field_type \in DOMAIN FEE_COLUMN_PATTERNS |->
            [j \in 1..Len(FEE_COLUMN_PATTERNS[field_type]) |->
                calculate_match_confidence(FEE_COLUMN_PATTERNS[field_type][j], column)]]]

\* the (column, confidence) pairs with confidence > 0, columns outermost
Matches(field_type, columns) ==
    LET patterns == FEE_COLUMN_PATTERNS[field_type]
        m == Len(patterns)
        all == [k \in 1..(Len(columns) * m) |->
                   LET column == columns[((k - 1) \div m) + 1]
                       j == ((k - 1) % m) + 1
                   IN [column |-> column,
                       confidence |-> MatchConfidences[column][field_type][j]]]
        Positive(match) == match.confidence > 0
    IN SelectSeq(all, Positive)

\* matches.sort(key=confidence, reverse=True): the sort is stable
RECURSIVE SortByConfidence(_)
SortByConfidence(matches) ==
    IF matches = <<>> THEN <<>>
    ELSE LET best == CHOOSE i \in 1..Len(matches) :
                        /\ \A j \in 1..Len(matches) :
                              matches[j].confidence <= matches[i].confidence
                        /\ \A j \in 1..(i - 1) :
                              matches[j].confidence < matches[i].confidence
         IN <<matches[best]>> \o
            SortByConfidence(SubSeq(matches, 1, best - 1)
                             \o SubSeq(matches, best + 1, Len(matches)))

\* the columns of the ambiguity recorded for the matches, <<>> for none
HighConfMatches(matches) ==
    LET IsHigh(match) == match.confidence >= 70
        high == SelectSeq(matches, IsHigh)
    IN IF Len(high) > 1 THEN [i \in 1..Len(high) |-> high[i].column] ELSE <<>>

DetectField(field_type, columns) ==
    LET matches == Matches(field_type, columns) IN
    IF matches = <<>>
    THEN [column |-> NoneVal, confidence |-> 0, ambiguity |-> <<>>, missing |-> TRUE]
    ELSE IF Len(matches) = 1
    THEN [column |-> Some(matches[1].column), confidence |-> matches[1].confidence,
          ambiguity |-> <<>>, missing |-> FALSE]
    ELSE LET sorted == SortByConfidence(matches) IN
         [column |-> Some(sorted[1].column), confidence |-> sorted[1].confidence,
          ambiguity |-> HighConfMatches(sorted), missing |-> FALSE]

FieldTypeSet == {FieldTypes[i] : i \in 1..Len(FieldTypes)}

detect_fee_columns(columns) ==
    LET found == [field_type \in FieldTypeSet |-> DetectField(field_type, columns)]
        IsAmbiguous(field_type) == found[field_type].ambiguity # <<>>
        IsMissing(field_type) == found[field_type].missing
        ambiguous == SelectSeq(FieldTypes, IsAmbiguous)
    IN [detected_columns |-> [field_type \in FieldTypeSet |-> found[field_type].column],
        confidence_scores |-> [field_type \in FieldTypeSet |-> found[field_type].confidence],
        ambiguities |-> [i \in 1..Len(ambiguous) |->
                            [field_type |-> ambiguous[i],
                             columns |-> found[ambiguous[i]].ambiguity]],
        missing_fields |-> SelectSeq(FieldTypes, IsMissing)]

RECURSIVE Strings(_, _)
Strings(chars, n) ==
    IF n = 0 THEN {<<>>}
    ELSE LET shorter == Strings(chars, n - 1) IN
         shorter \cup {Append(s, c) : s \in {t \in shorter : Len(t) = n - 1}, c \in chars}

\* patterns are lower-case and not empty; headers are what a sheet may hold
MatchPatterns == Strings({"a", "b"}, MaxLen) \ {<<>>}
MatchHeaders == Strings({"a", "B", " "}, MaxLen)

RECURSIVE ColumnLists(_)
ColumnLists(n) ==
    IF n = 0 THEN {<<>>}
    ELSE LET shorter == ColumnLists(n - 1) IN
         shorter \cup {Append(s, c) : s \in {t \in shorter : Len(t) = n - 1},
                                      c \in ColumnNames}

Distinct(columns) ==
    \A i, j \in 1..Len(columns) : columns[i] = columns[j] => i = j

DetectInit ==
    /\ TrackerNew
    /\ output = <<>>
    /\ \/ /\ pc = "match:call"
          /\ input \in [pattern : MatchPatterns, header : MatchHeaders]
       \/ /\ pc = "detect:call"
          /\ input \in [columns : {c \in ColumnLists(MaxColumns) : Distinct(c)}]

\* load_transactions normalises the header, detect_fee_columns scores it
CalculateMatchConfidence ==
    /\ pc = "match:call"
    /\ pc' = "match:done"
    /\ LET column == normalize_header(input.header) IN
       output' = [column |-> column,
                  confidence |-> calculate_match_confidence(input.pattern, column)]
    /\ UNCHANGED <<input, trackerVars>>

DetectFeeColumns ==
    /\ pc = "detect:call"
    /\ pc' = "detect:done"
    /\ output' = detect_fee_columns(input.columns)
    /\ UNCHANGED <<input, trackerVars>>

DetectNext ==
    \/ CalculateMatchConfidence
    \/ DetectFeeColumns

SpecDetect == DetectInit /\ [][DetectNext]_vars

\* the rules of the claims, stated on the strings themselves
IsPrefixOf(pattern, column) == \E n \in 0..Len(column) : pattern = SubSeq(column, 1, n)
IsSuffixOf(pattern, column) ==
    \E n \in 0..Len(column) : pattern = SubSeq(column, n + 1, Len(column))
IsSubstringOf(pattern, column) ==
    \E i \in 1..(Len(column) + 1), j \in 0..Len(column) : pattern = SubSeq(column, i, j)
RECURSIVE EditDistance(_, _)
EditDistance(a, b) ==
    IF a = <<>> THEN Len(b)
    ELSE IF b = <<>> THEN Len(a)
    ELSE Min3(EditDistance(Tail(a), b) + 1,
              EditDistance(a, Tail(b)) + 1,
              EditDistance(Tail(a), Tail(b)) + (IF Head(a) # Head(b) THEN 1 ELSE 0))
FirstRuleThatApplies(pattern, column) ==
    IF pattern = column THEN 100
    ELSE IF IsPrefixOf(pattern, column) THEN 90
    ELSE IF IsSuffixOf(pattern, column) THEN 80
    ELSE IF IsSubstringOf(pattern, column) THEN 70
    ELSE IF EditDistance(pattern, column) <= 2 THEN 60
    ELSE IF EditDistance(pattern, column) = 3 THEN 50
    ELSE 0
ColumnSet == {input.columns[i] : i \in 1..Len(input.columns)}

HighScoringColumns(field_type) ==
    {c \in ColumnSet :
        \E i \in 1..Len(FEE_COLUMN_PATTERNS[field_type]) :
            MatchConfidences[c][field_type][i] >= 70}
AmbiguousFields == {output.ambiguities[i].field_type : i \in 1..Len(output.ambiguities)}

\* C15: detect_fee_columns records an ambiguity for a field exactly when two
\* or more columns score >= 0.7 for it; one column that matches several
\* patterns of the field is not an ambiguity.
C15_AmbiguityIffTwoColumns ==
    pc = "detect:done" =>
        \A field_type \in FieldTypeSet :
            field_type \in AmbiguousFields
                <=> Cardinality(HighScoringColumns(field_type)) >= 2

(***************************************************************************)
(* detect_commission_types_by_percentage (field_detector.py): the sample   *)
(* of one commission-like column.  Percentages are in hundredths of a      *)
(* percent.                                                                *)
(***************************************************************************)
SampleSize == 50
MaxExtraRows == 2
TargetRemunerationPct == 380
TargetRRPct == 1000
PctTolerance == 20

\* float((comm_val / amount_val) * 100)
Pct(comm_val, amount_val) == (comm_val * 10000) \div amount_val

\* `amount_val and comm_val and amount_val > 0` on the parsed cells
InSample(row) ==
    LET amount_val == parse_decimal(row.amount)
        comm_val == parse_decimal(row.commission)
    IN /\ amount_val.kind = "num" /\ amount_val.v # 0
       /\ comm_val.kind = "num" /\ comm_val.v # 0
       /\ amount_val.v > 0

RowPct(row) == Pct(parse_decimal(row.commission).v, parse_decimal(row.amount).v)

RECURSIVE SumSeq(_)
SumSeq(seq) == IF seq = <<>> THEN 0 ELSE Head(seq) + SumSeq(Tail(seq))

MatchesOf(pct_sum, count) ==
    IF Abs(pct_sum - TargetRemunerationPct * count) < PctTolerance * count
    THEN "remuneration"
    ELSE IF Abs(pct_sum - TargetRRPct * count) < PctTolerance * count
    THEN "rolling_reserve"
    ELSE "unknown"

\* transactions[:50]
SampledRows(transactions) == SubSeq(transactions, 1, Min(SampleSize, Len(transactions)))

detect_commission_types_by_percentage(transactions) ==
    LET sampled == SelectSeq(SampledRows(transactions), InSample)
        percentages == [i \in 1..Len(sampled) |-> RowPct(sampled[i])]
    IN IF percentages = <<>>
       THEN [analysed |-> FALSE, percentages |-> <<>>, sample_count |-> 0,
             matches |-> "unknown"]
       ELSE [analysed |-> TRUE, percentages |-> percentages,
             sample_count |-> Len(percentages),
             matches |-> MatchesOf(SumSeq(percentages), Len(percentages))]

GoodRow(commission) == [amount |-> Num(10000), commission |-> Num(commission)]
BadRows ==
    {[amount |-> TextCell, commission |-> Num(380)],
     [amount |-> Num(0), commission |-> Num(380)],
     [amount |-> Num(-10000), commission |-> Num(380)],
     [amount |-> Num(10000), commission |-> NoCell],
     [amount |-> Num(10000), commission |-> Num(0)]}
RowCounts == {0, 1} \cup ((SampleSize - 1)..(SampleSize + MaxExtraRows))
BadPositions == {1, 2, SampleSize, SampleSize + 1}
RateSwitches == {0, SampleSize, SampleSize + 1}

\* a sheet of n rows: bad_row at the positions of bad, commission 3.8% up to
\* row switch and 10% after it
SampleTable(n, bad, bad_row, switch) ==
    [i \in 1..n |->
        IF i \in bad THEN bad_row
        ELSE IF i <= switch THEN GoodRow(380) ELSE GoodRow(1000)]

SampleInit ==
    /\ TrackerNew
    /\ pc = "sample:call"
    /\ output = <<>>
    /\ \E n \in RowCounts, bad \in SUBSET BadPositions, bad_row \in BadRows,
          switch \in RateSwitches :
          input = [transactions |-> SampleTable(n, bad, bad_row, switch)]

DetectCommissionTypes ==
    /\ pc = "sample:call"
    /\ pc' = "sample:done"
    /\ output' = detect_commission_types_by_percentage(input.transactions)
    /\ UNCHANGED <<input, trackerVars>>

SampleNext == DetectCommissionTypes

SpecSample == SampleInit /\ [][SampleNext]_vars

\* a valid row of the claim: amount and commission parse and amount > 0
ValidRow(row) ==
    /\ row.amount.kind = "num" /\ row.amount.v > 0
    /\ row.commission.kind = "num"
FirstValidRows ==
    LET valid == SelectSeq(input.transactions, ValidRow)
    IN SubSeq(valid, 1, Min(SampleSize, Len(valid)))

\* C16: the sample of a commission-like column is the first 50 valid rows of
\* the table (amount and commission parse, amount > 0): invalid rows do not
\* use up the sample, which has 50 rows whenever the table has 50 valid rows.
C16_SampleIsFirstValidRows ==
    pc = "sample:done" =>
        /\ output.sample_count = Len(FirstValidRows)
        /\ output.percentages =
               [i \in 1..Len(FirstValidRows) |-> RowPct(FirstValidRows[i])]

(***************************************************************************)
(* analyze_rates_sorting (sorting_algorithm.py).  A rate is commission /   *)
(* amount in units of 0.0001; the inputs are drawn so that the division is *)
(* exact and no two rates differ by exactly eps.  A cell of kind "none" is *)
(* NaN in the float arrays.                                                *)
(***************************************************************************)
MaxTx == 3
RateScale == 10000
DefaultMinRateDiff == 10
DefaultMinClusterSize == 10

\* np.asarray: an array holds its values, worked out once
asarray(f) == SubSeq(f, 1, Len(f))

\* rates = commissions_arr / amounts_arr
RateOf(row) == (row.commission.v * RateScale) \div row.amount.v

IsFiniteRate(row) ==
    row.amount.kind = "num" /\ row.commission.kind = "num" /\ row.amount.v # 0

ValidMaskFiniteOnly(row) == IsFiniteRate(row)

\* (amounts_arr > 0) & np.isfinite(rates)
ValidMask(row) == row.amount.kind = "num" /\ row.amount.v > 0 /\ IsFiniteRate(row)

ArgSortNone(rates) == [k \in 1..Len(rates) |-> k]

\* np.argsort: the indices in the order of their rates
ArgSort(rates) ==
    LET rank == asarray([k \in 1..Len(rates) |->
                            Cardinality({j \in 1..Len(rates) :
                                            \/ rates[j] < rates[k]
                                            \/ rates[j] = rates[k] /\ j < k}) + 1])
    IN asarray([r \in 1..Len(rates) |-> CHOOSE k \in 1..Len(rates) : rank[k] = r])

EpsFloorDiv(min_rate_diff) == ((min_rate_diff \div RateScale) \div 2) * RateScale

\* eps = min_rate_diff / 2
Eps(min_rate_diff) == min_rate_diff \div 2

WindowEndChained(sorted_rates, i, eps) ==
    CHOOSE j \in (i + 1)..(Len(sorted_rates) + 1) :
        /\ \A k \in (i + 1)..(j - 1) : sorted_rates[k] - sorted_rates[k - 1] <= eps
        /\ j = Len(sorted_rates) + 1 \/ sorted_rates[j] - sorted_rates[j - 1] > eps

\* the inner while loop: the first j past the points within eps of point i
WindowEnd(sorted_rates, i, eps) ==
    CHOOSE j \in i..(Len(sorted_rates) + 1) :
        /\ \A k \in i..(j - 1) : sorted_rates[k] - sorted_rates[i] <= eps
        /\ j = Len(sorted_rates) + 1 \/ sorted_rates[j] - sorted_rates[i] > eps

\* the outer while loop: the ranges i..j-1 of sorted positions that got a
\* cluster id, in the order of their ids
RECURSIVE ScanClusters(_, _, _, _, _)
ScanClusters(sorted_rates, i, eps, min_cluster_size, found) ==
    IF i > Len(sorted_rates) THEN found
    ELSE LET j == WindowEnd(sorted_rates, i, eps) IN
         IF j - i >= min_cluster_size
         THEN ScanClusters(sorted_rates, j, eps, min_cluster_size,
                           Append(found, [from |-> i, to |-> j - 1]))
         ELSE ScanClusters(sorted_rates, i + 1, eps, min_cluster_size, found)

\* labels[sorted_idx[i:j]] = cluster_id, ids from 0, -1 for an outlier
Labels(sorted_idx, ranges) ==
    asarray([k \in 1..Len(sorted_idx) |->
        LET pos == CHOOSE r \in 1..Len(sorted_idx) : sorted_idx[r] = k IN
        IF \E c \in 1..Len(ranges) : ranges[c].from <= pos /\ pos <= ranges[c].to
        THEN (CHOOSE c \in 1..Len(ranges) :
                 ranges[c].from <= pos /\ pos <= ranges[c].to) - 1
        ELSE -1])

\* twice np.median
Median2(rates) ==
    LET sorted_idx == ArgSort(rates)
        n == Len(rates)
    IN IF n % 2 = 1 THEN 2 * rates[sorted_idx[(n + 1) \div 2]]
       ELSE rates[sorted_idx[n \div 2]] + rates[sorted_idx[(n \div 2) + 1]]

SeqMin(seq) == CHOOSE x \in {seq[i] : i \in 1..Len(seq)} : \A i \in 1..Len(seq) : x <= seq[i]
SeqMax(seq) == CHOOSE x \in {seq[i] : i \in 1..Len(seq)} : \A i \in 1..Len(seq) : x >= seq[i]

\* round(count / valid_transactions * 100, 2), in hundredths of a percent
PercentOf(count, valid_transactions) ==
    (2 * count * 10000 + valid_transactions) \div (2 * valid_transactions)

ClusterInfo(cid, labels, valid_rates) ==
    LET members == {k \in 1..Len(labels) : labels[k] = cid}
        InCluster(k) == k \in members
        mask == SelectSeq([k \in 1..Len(labels) |-> k], InCluster)
        cluster_rates == asarray([i \in 1..Len(mask) |-> valid_rates[mask[i]]])
    IN [cluster_id |-> cid,
        median2 |-> Median2(cluster_rates),
        transaction_count |-> Cardinality(members),
        percentage_of_total |-> PercentOf(Cardinality(members), Len(valid_rates)),
        min_rate |-> SeqMin(cluster_rates),
        max_rate |-> SeqMax(cluster_rates)]

\* clusters.sort(key=transaction_count, reverse=True): the sort is stable
RECURSIVE SortByCount(_)
SortByCount(clusters) ==
    IF clusters = <<>> THEN <<>>
    ELSE LET best == CHOOSE i \in 1..Len(clusters) :
                        /\ \A j \in 1..Len(clusters) :
                              clusters[j].transaction_count <= clusters[i].transaction_count
                        /\ \A j \in 1..(i - 1) :
                              clusters[j].transaction_count < clusters[i].transaction_count
         IN <<clusters[best]>> \o
            SortByCount(SubSeq(clusters, 1, best - 1)
                        \o SubSeq(clusters, best + 1, Len(clusters)))

analyze_rates_sorting(transactions, min_rate_diff, min_cluster_size) ==
    LET valid == SelectSeq(transactions, ValidMask)
        valid_rates == asarray([k \in 1..Len(valid) |-> RateOf(valid[k])])
        valid_transactions == Len(valid_rates)
    IN IF valid_transactions = 0
       THEN [error |-> TRUE, total_transactions |-> Len(transactions),
             valid_transactions |-> 0, outlier_count |-> 0, outlier_percentage |-> 0,
             num_clusters |-> 0, clusters |-> <<>>]
       ELSE LET sorted_idx == ArgSort(valid_rates)
                sorted_rates ==
                    asarray([r \in 1..valid_transactions |-> valid_rates[sorted_idx[r]]])
                ranges == ScanClusters(sorted_rates, 1, Eps(min_rate_diff),
                                       min_cluster_size, <<>>)
                labels == Labels(sorted_idx, ranges)
                outlier_count == Cardinality({k \in 1..valid_transactions : labels[k] = -1})
            IN [error |-> FALSE, total_transactions |-> Len(transactions),
                valid_transactions |-> valid_transactions,
                outlier_count |-> outlier_count,
                outlier_percentage |-> PercentOf(outlier_count, valid_transactions),
                num_clusters |-> Len(ranges),
                clusters |-> SortByCount(asarray([c \in 1..Len(ranges) |->
                                             ClusterInfo(c - 1, labels, valid_rates)]))]

Tx(amount, commission) == [amount |-> Num(amount), commission |-> Num(commission)]
SortingRows ==
    {Tx(10000, 380), Tx(20000, 760), Tx(10000, 384), Tx(10000, 388),
     Tx(0, 380), Tx(-10000, -380), [amount |-> Num(10000), commission |-> NoCell]}

RECURSIVE SortingTables(_)
SortingTables(n) ==
    IF n = 0 THEN {<<>>}
    ELSE LET shorter == SortingTables(n - 1) IN
         shorter \cup {Append(s, row) : s \in {t \in shorter : Len(t) = n - 1},
                                        row \in SortingRows}

\* the sheets of the 95 + 5 scenario: 95 rows at 3.79% .. 3.81% and 5 rows
\* at 5% or more, the five leading, trailing or spread over the sheet
OutlierAt(place, i) ==
    IF place = "front" THEN i <= 5
    ELSE IF place = "back" THEN i > 95
    ELSE i % (20) = 0
ClusterRate(pattern, i) ==
    IF pattern = "flat" THEN 380
    ELSE IF pattern = "cycle" THEN 379 + (i % 3)
    ELSE IF i <= 50 THEN 379 ELSE 381
OutlierRate(kind, i) ==
    IF kind = "equal" THEN 500 ELSE IF kind = "far" THEN 5000 ELSE 500 + 10 * (i % 7)
ScenarioTable(pattern, kind, place, doubled) ==
    asarray([i \in 1..100 |->
        LET rate == IF OutlierAt(place, i) THEN OutlierRate(kind, i)
                    ELSE ClusterRate(pattern, i)
        IN IF doubled /\ i % 2 = 0 THEN Tx(20000, 2 * rate) ELSE Tx(10000, rate)])
ScenarioTables ==
    {ScenarioTable(pattern, kind, place, doubled) :
        pattern \in {"flat", "cycle", "halves"}, kind \in {"equal", "far", "spread"},
        place \in {"front", "back", "spread"}, doubled \in BOOLEAN}

SortingInit ==
    /\ TrackerNew
    /\ pc = "sorting:call"
    /\ output = <<>>
    /\ \/ input \in [transactions : SortingTables(MaxTx),
                     min_rate_diff : {DefaultMinRateDiff},
                     min_cluster_size : {1, 2, DefaultMinClusterSize}]
       \/ input \in [transactions : ScenarioTables,
                     min_rate_diff : {DefaultMinRateDiff},
                     min_cluster_size : {DefaultMinClusterSize}]

AnalyzeRatesSorting ==
    /\ pc = "sorting:call"
    /\ pc' = "sorting:done"
    /\ output' = analyze_rates_sorting(input.transactions, input.min_rate_diff,
                                       input.min_cluster_size)
    /\ UNCHANGED <<input, trackerVars>>

SortingNext == AnalyzeRatesSorting

SpecSorting == SortingInit /\ [][SortingNext]_vars

\* the permutations a sheet is compared under: all of them for a short
\* sheet, the reversal and the rotations by one and by a third for a long one
RowPermutations(n) ==
    IF n <= MaxTx + 1
    THEN {f \in [1..n -> 1..n] : \A i, j \in 1..n : f[i] = f[j] => i = j}
    ELSE {[i \in 1..n |-> n + 1 - i], [i \in 1..n |-> (i % n) + 1],
          [i \in 1..n |-> ((i + n \div 3) % n) + 1]}
Permuted(transactions, f) ==
    asarray([i \in 1..Len(transactions) |-> transactions[f[i]]])

\* C17: the number of clusters and the median rate of each cluster are the
\* same for every permutation of the input rows.
C17_PermutationInvariant ==
    pc = "sorting:done" =>
        \A f \in RowPermutations(Len(input.transactions)) :
            LET permuted == analyze_rates_sorting(Permuted(input.transactions, f),
                                                  input.min_rate_diff,
                                                  input.min_cluster_size)
            IN /\ Len(permuted.clusters) = Len(output.clusters)
               /\ permuted.num_clusters = output.num_clusters
               /\ \A c \in 1..Len(output.clusters) :
                     permuted.clusters[c].median2 = output.clusters[c].median2

\* C17 witness: a sheet that is not in rate order, with an outlier between
\* the two rows of its cluster.
C17_Witness ==
    /\ pc = "sorting:done"
    /\ input.transactions = <<Tx(10000, 384), Tx(10000, 388), Tx(10000, 380)>>
    /\ input.min_cluster_size = 2
    /\ output.num_clusters = 1 /\ output.outlier_count = 1
    /\ output.clusters[1].median2 = 764

ValidRows == SelectSeq(input.transactions, ValidMask)
SameRate(r) ==
    /\ Len(input.transactions) >= 1
    /\ \A i \in 1..Len(input.transactions) :
          ValidMask(input.transactions[i]) /\ RateOf(input.transactions[i]) = r

\* C18: when every transaction has amount > 0 and the same rate r, whatever
\* the number of transactions, exactly one cluster is returned and its
\* rate_percent is r x 100 within min_rate_diff.
C18_SingleRateSingleCluster ==
    pc = "sorting:done" =>
        \A r \in {380, 384, 388} :
            SameRate(r) =>
                /\ Len(output.clusters) = 1
                /\ Abs(output.clusters[1].median2 - 2 * r) <= 2 * input.min_rate_diff

RowsWithRate(low, high) ==
    Cardinality({i \in 1..Len(ValidRows) :
                    low <= RateOf(ValidRows[i]) /\ RateOf(ValidRows[i]) <= high})
MaxRate == 100 * RateScale

\* C19: with the default parameters, 100 valid transactions of which 95 have
\* a rate in [0.0379, 0.0381] and 5 a rate >= 0.05 give exactly one cluster
\* that holds the 95, outlier_count = 5 and outlier_percentage = 5.0.
C19_NinetyFivePlusFive ==
    ( /\ pc = "sorting:done"
      /\ input.min_rate_diff = DefaultMinRateDiff
      /\ input.min_cluster_size = DefaultMinClusterSize
      /\ Len(ValidRows) = 100
      /\ RowsWithRate(379, 381) = 95
      /\ RowsWithRate(500, MaxRate) = 5 )
    => /\ Len(output.clusters) = 1
       /\ output.clusters[1].transaction_count = 95
       /\ output.clusters[1].min_rate >= 379 /\ output.clusters[1].max_rate <= 381
       /\ output.outlier_count = 5
       /\ output.outlier_percentage = 500

\* C19 witness: the 95 are spread over 3.79%, 3.80% and 3.81%, the five
\* outliers have different rates and are spread over the sheet.
C19_Witness ==
    /\ pc = "sorting:done"
    /\ input.transactions = ScenarioTable("cycle", "spread", "spread", TRUE)
    /\ output.num_clusters = 1
    /\ output.clusters[1].min_rate = 379 /\ output.clusters[1].max_rate = 381
    /\ output.outlier_count = 5

\* C20: when no transaction is valid (every amount <= 0 or every rate not
\* finite, or no transaction at all) the result has no cluster, an error
\* field and valid_transactions = 0.
C20_NoValidTransactions ==
    ( /\ pc = "sorting:done"
      /\ \A i \in 1..Len(input.transactions) :
            \/ input.transactions[i].amount.v <= 0
            \/ input.transactions[i].commission.kind = "none" )
    => /\ output.clusters = <<>>
       /\ output.error
       /\ output.valid_transactions = 0
       /\ output.total_transactions = Len(input.transactions)

\* C20 witness: three rows, one with amount 0, one with a negative amount
\* and one whose commission is not a number.
C20_Witness ==
    /\ pc = "sorting:done"
    /\ input.transactions =
          <<Tx(0, 380), Tx(-10000, -380), [amount |-> Num(10000), commission |-> NoCell]>>
    /\ output.error /\ output.clusters = <<>> /\ output.valid_transactions = 0

(***************************************************************************)
(* RollingReserveTracker.release_expired with nothing to release            *)
(* (rr_calculator.py)                                                       *)
(***************************************************************************)
\* no holding is old enough for release_expired(current_date)
NothingToRelease(current_date) ==
    \A i \in 1..Len(holdings) :
        ~ToRelease(holdings[i], current_date - holding_days)

\* C27: release_expired called when no holding is older than holding_days
\* returns a released amount of zero without raising, and leaves the balance
\* and the holdings as they were
C27_ReleaseNothingReturnsZero ==
    [][ (TrackerCall("release_expired")
            /\ NothingToRelease(ret'.current_date)) =>
        /\ ~ret'.raised
        /\ ret'.released = 0
        /\ UNCHANGED <<current_balance, holdings>> ]_vars

(***************************************************************************)
(* One RollingReserveTracker driven call by call, with the history of the   *)
(* calls (their dates, the running sum of the rounded reserves) and, next   *)
(* to every calculate_rr, calculate_expected_rr for the same amount, rate   *)
(* and cap (rr_calculator.py)                                               *)
(***************************************************************************)
ReserveAmounts == Amounts \cup {0}

Max2(a, b) == IF a >= b THEN a ELSE b

\* the date a call carries; NoDate for calculate_rr without a date
CallDate(r) ==
    IF r.op = "calculate_rr" THEN r.date
    ELSE IF r.op = "release_expired" THEN r.current_date
    ELSE NoDate

\* the history after one more call whose record is r
Recorded(history, r) ==
    [last_date |-> Max2(history.last_date, CallDate(r)),
     ordered   |-> history.ordered
                     /\ (CallDate(r) = NoDate \/ CallDate(r) >= history.last_date),
     released  |-> history.released \/ r.op = "release_expired",
     nonneg    |-> history.nonneg /\ (r.op = "calculate_rr" => r.amount >= 0),
     running   |-> history.running
                     + (IF r.op = "calculate_rr" THEN r.rr_amount ELSE 0)]

ReserveInit ==
    /\ TrackerNew
    /\ pc = "reserve"
    /\ input = [last_date |-> NoDate, ordered |-> TRUE, released |-> FALSE,
                nonneg |-> TRUE, running |-> 0]
    /\ output = [rr_amount |-> 0]

ReserveCalculateRR ==
    \E amount \in ReserveAmounts, rate \in Rates, date \in Days \cup {NoDate} :
        /\ CalculateRRCall(amount, rate, date)
        /\ input' = Recorded(input, ret')
        /\ output' = [rr_amount |-> calculate_expected_rr(amount, rate, cap)]
        /\ pc' = pc

ReserveReleaseExpired ==
    \E current_date \in Days :
        /\ ReleaseExpiredCall(current_date)
        /\ input' = Recorded(input, ret')
        /\ UNCHANGED <<pc, output>>

ReserveNext ==
    \/ ReserveCalculateRR
    \/ ReserveReleaseExpired

SpecReserve == ReserveInit /\ [][ReserveNext]_vars

\* the call just made carries a date lower than an earlier call's
OutOfOrderCall == input.ordered /\ ~input'.ordered

\* C25: with non-decreasing dates the balance never exceeds the cap, and an
\* out-of-order call is detected (it raises) instead of being carried out
C25_OutOfOrderDetected ==
    /\ [](input.ordered => current_balance <= cap)
    /\ [][ (ncalls' = ncalls + 1 /\ OutOfOrderCall) =>
           (ret'.op = "release_expired" /\ ret'.raised) ]_vars

\* a calculate_rr call in a run of the tracker that has seen only
\* non-negative amounts and no release
ReserveStep ==
    /\ ncalls' = ncalls + 1
    /\ ret'.op = "calculate_rr"
    /\ input'.nonneg
    /\ ~input'.released

\* the call that makes the running sum of the rounded reserves exceed cap
ExceedsCapFirst == input.running <= cap /\ input'.running > cap

\* C30 as stated: the tracker's applied_amount equals calculate_expected_rr's
\* rr_amount while the running sum of the rounded reserves does not exceed
\* cap, and the two differ on the transaction that makes it exceed cap
C30_AgreeBelowCapDifferAbove ==
    [][ ReserveStep =>
        /\ (input'.running <= cap => ret'.applied_amount = output'.rr_amount)
        /\ (ExceedsCapFirst => ret'.applied_amount # output'.rr_amount) ]_vars

\* C30 amended: the two agree while the running sum does not exceed cap; on
\* the transaction that makes it exceed cap they differ exactly when the
\* balance before that transaction was above zero (from a zero balance both
\* return cap)
C30_AgreeBelowCapDifferAboveFromPositive ==
    [][ ReserveStep =>
        /\ (input'.running <= cap => ret'.applied_amount = output'.rr_amount)
        /\ (ExceedsCapFirst =>
              (ret'.applied_amount # output'.rr_amount <=> input.running > 0)) ]_vars

C30_Witness ==
    /\ pc = "reserve" /\ ncalls >= 2
    /\ ret.op = "calculate_rr" /\ input.nonneg /\ ~input.released
    /\ input.running > cap
    /\ input.running - ret.rr_amount <= cap
    /\ input.running - ret.rr_amount > 0
    /\ ret.applied_amount # output.rr_amount

(***************************************************************************)
(* The expected rolling reserve in the loop of verify_transactions          *)
(* (core.py) and the agent's RollingReserveTracker                          *)
(***************************************************************************)
\* the amount the loop reads for a row: a number other than zero in a
\* detected amount column
HasAmount(transaction, detected_columns) ==
    /\ detected_columns.amount
    /\ transaction.amount.kind = "num"
    /\ transaction.amount.v # 0

\* min(round_half_up(amount x rate), cap) of the row alone
StatelessReserve(transaction) ==
    LET rounded == QuantizeHalfUp(transaction.amount.v * contract.rolling_reserve_rate,
                                  1000)
    IN  IF rounded <= contract.rolling_reserve_cap
        THEN rounded ELSE contract.rolling_reserve_cap

RECURSIVE SumCounts(_)
SumCounts(clusters) ==
    IF clusters = <<>> THEN 0
    ELSE clusters[1].transaction_count + SumCounts(Tail(clusters))

\* C28: in every result of analyze_rates_sorting with at least one valid
\* transaction the clusters' transaction counts and the outlier count sum to
\* valid_transactions, every cluster has at least min_cluster_size members,
\* and the rates inside one cluster differ by at most min_rate_diff / 2
C28_ClustersPartitionValidRows ==
    (pc = "sorting:done" /\ output.valid_transactions >= 1) =>
        /\ SumCounts(output.clusters) + output.outlier_count
              = output.valid_transactions
        /\ Len(output.clusters) = output.num_clusters
        /\ \A c \in 1..Len(output.clusters) :
              /\ output.clusters[c].transaction_count >= input.min_cluster_size
              /\ 2 * (output.clusters[c].max_rate - output.clusters[c].min_rate)
                    <= input.min_rate_diff

C28_Witness ==
    /\ pc = "sorting:done"
    /\ input.min_cluster_size = 2
    /\ output.valid_transactions = 3
    /\ output.num_clusters = 1
    /\ output.outlier_count = 1
    /\ output.clusters[1].transaction_count = 2
    /\ output.clusters[1].min_rate < output.clusters[1].max_rate

(***************************************************************************)
(* analyze_rates_kmeans (kmeans_algorithm.py)                               *)
(*                                                                          *)
(* Amounts and commissions are small integers and every quotient is kept    *)
(* as an exact fraction [num, den] with den > 0. round(x, 4) keeps the sign *)
(* of x and is left out: rate_percent, minimal_fee and r_squared hold the   *)
(* unrounded value.                                                         *)
(***************************************************************************)
RECURSIVE Gcd(_, _)
Gcd(a, b) == IF b = 0 THEN a ELSE Gcd(b, a % b)

Frac(num, den) ==
    LET g == Gcd(Abs(num), Abs(den))
        s == IF den < 0 THEN -1 ELSE 1
    IN  [num |-> s * (num \div g), den |-> s * (den \div g)]
FracInt(n) == [num |-> n, den |-> 1]
FracAdd(a, b) == Frac(a.num * b.den + b.num * a.den, a.den * b.den)
FracSub(a, b) == Frac(a.num * b.den - b.num * a.den, a.den * b.den)
FracMul(a, b) == Frac(a.num * b.num, a.den * b.den)
FracDiv(a, b) == Frac(a.num * b.den, a.den * b.num)

RECURSIVE FracSum(_)
FracSum(seq) == IF seq = <<>> THEN FracInt(0) ELSE FracAdd(seq[1], FracSum(Tail(seq)))

\* a valid transaction as a point
Point(x, y) == [x |-> x, y |-> y]
SumX(points) == SumSeq([i \in 1..Len(points) |-> points[i].x])
SumY(points) == SumSeq([i \in 1..Len(points) |-> points[i].y])
SumXX(points) == SumSeq([i \in 1..Len(points) |-> points[i].x * points[i].x])
SumYY(points) == SumSeq([i \in 1..Len(points) |-> points[i].y * points[i].y])
SumXY(points) == SumSeq([i \in 1..Len(points) |-> points[i].x * points[i].y])

\* `fee = max(0.0, fee)`
ClampFeeNone(fee) == fee

ClampFee(fee) == IF fee.num < 0 THEN FracInt(0) ELSE fee

\* _fit_linear_model: commission = rate * amount + fee by least squares;
\* when every amount is the same the system has rank 1 and lstsq returns
\* the solution of least norm
fit_linear_model(points) ==
    LET n == Len(points)
        d == n * SumXX(points) - SumX(points) * SumX(points)
    IN  IF n = 0 THEN [rate |-> FracInt(0), fee |-> FracInt(0)]
        ELSE IF n = 1
        THEN [rate |-> IF points[1].x > 0 THEN Frac(points[1].y, points[1].x)
                       ELSE FracInt(0),
              fee |-> FracInt(0)]
        ELSE IF d = 0
        THEN LET x0 == points[1].x
                 scale == n * (x0 * x0 + 1)
             IN  [rate |-> Frac(x0 * SumY(points), scale),
                  fee |-> ClampFee(Frac(SumY(points), scale))]
        ELSE [rate |-> Frac(n * SumXY(points) - SumX(points) * SumY(points), d),
              fee |-> ClampFee(Frac(SumY(points) * SumXX(points)
                                      - SumX(points) * SumXY(points), d))]

\* `r_squared = 1 - (ss_res / ss_tot) if ss_tot > 0 else 1.0`
RSquared(points, fit) ==
    LET n == Len(points)
        residual2(i) ==
            LET predicted == FracAdd(FracMul(fit.rate, FracInt(points[i].x)), fit.fee)
                r == FracSub(FracInt(points[i].y), predicted)
            IN  FracMul(r, r)
        ss_res == FracSum([i \in 1..n |-> residual2(i)])
        \* n * ss_tot
        n_ss_tot == n * SumYY(points) - SumY(points) * SumY(points)
    IN  IF n_ss_tot > 0
        THEN FracSub(FracInt(1), FracDiv(FracMul(ss_res, FracInt(n)), FracInt(n_ss_tot)))
        ELSE FracInt(1)

\* 1 / std^2 of one column of the data, std = 1 when the column is constant
\* (`data_std[data_std == 0] = 1`): n^2 / (n * sum(v^2) - sum(v)^2)
AxisWeight(n, sum, sum_of_squares) ==
    LET v == n * sum_of_squares - sum * sum
    IN  IF v = 0 THEN [num |-> 1, den |-> 1] ELSE [num |-> n * n, den |-> v]

Weights(points) ==
    [x |-> AxisWeight(Len(points), SumX(points), SumXX(points)),
     y |-> AxisWeight(Len(points), SumY(points), SumYY(points))]

\* A centroid is the mean of c points, kept as the sums sx, sy and the count
\* c; normalising is affine, so the mean of the normalised points is the
\* normalised mean. c^2 * weights.x.den * weights.y.den times the squared
\* distance in normalised coordinates from point p to the centroid:
ScaledDistance(p, centroid, weights) ==
    LET dx == centroid.c * p.x - centroid.sx
        dy == centroid.c * p.y - centroid.sy
    IN  dx * dx * weights.x.num * weights.y.den
        + dy * dy * weights.y.num * weights.x.den

\* the distance from p to centroid a is below the distance to centroid b
Nearer(p, a, b, weights) ==
    ScaledDistance(p, a, weights) * b.c * b.c
        < ScaledDistance(p, b, weights) * a.c * a.c

\* np.argmin(distances): the first of the nearest centroids
ArgMin(p, centroids, weights) ==
    CHOOSE k \in 1..Len(centroids) :
        /\ \A j \in 1..Len(centroids) : ~Nearer(p, centroids[j], centroids[k], weights)
        /\ \A j \in 1..(k - 1) : Nearer(p, centroids[k], centroids[j], weights)

\* `labels[i] = np.argmin(distances)` for every point; labels count from 1
AssignLabels(points, centroids, weights) ==
    asarray([i \in 1..Len(points) |-> ArgMin(points[i], centroids, weights)])

Members(points, labels, k) ==
    LET InCluster(i) == labels[i] = k
        mask == SelectSeq([i \in 1..Len(points) |-> i], InCluster)
    IN  asarray([m \in 1..Len(mask) |-> points[mask[m]]])

\* the mean of every cluster's points; an empty cluster keeps its centroid
NewCentroids(points, labels, centroids) ==
    asarray([k \in 1..Len(centroids) |->
        LET members == Members(points, labels, k)
        IN  IF Len(members) > 0
            THEN [sx |-> SumX(members), sy |-> SumY(members), c |-> Len(members)]
            ELSE centroids[k]])

\* np.allclose(centroids, new_centroids): on integer data two different
\* means are further apart than the tolerance, so close means equal
AllClose(centroids, new_centroids) ==
    \A k \in 1..Len(centroids) :
        /\ centroids[k].sx * new_centroids[k].c = new_centroids[k].sx * centroids[k].c
        /\ centroids[k].sy * new_centroids[k].c = new_centroids[k].sy * centroids[k].c

\* the state before the loop of _simple_kmeans: the centroids are the data
\* points at the first n_clusters entries of permutation(n_samples) that
\* the generator seeded with random_state gives
KMeansStart(points, n_clusters, indices) ==
    [labels |-> asarray([i \in 1..Len(points) |-> 1]),
     centroids |-> asarray([k \in 1..n_clusters |->
                      [sx |-> points[indices[k]].x, sy |-> points[indices[k]].y,
                       c |-> 1]]),
     iterations |-> 0,
     converged |-> FALSE]

\* one pass of `for _ in range(max_iter)`: reassign, recentre, and break
\* without storing the new centroids once they stop moving
KMeansIteration(points, weights, km) ==
    LET labels == AssignLabels(points, km.centroids, weights)
        new_centroids == NewCentroids(points, labels, km.centroids)
        converged == AllClose(km.centroids, new_centroids)
    IN  [labels |-> labels,
         centroids |-> IF converged THEN km.centroids ELSE new_centroids,
         iterations |-> km.iterations + 1,
         converged |-> converged]

KMeansRunningUncapped(km, max_iter) == ~km.converged

KMeansRunning(km, max_iter) == ~km.converged /\ km.iterations < max_iter

RECURSIVE KMeansLoop(_, _, _, _)
KMeansLoop(points, weights, km, max_iter) ==
    IF KMeansRunning(km, max_iter)
    THEN KMeansLoop(points, weights, KMeansIteration(points, weights, km), max_iter)
    ELSE km

\* _simple_kmeans(data, n_clusters, max_iter): the labels and the centroids
simple_kmeans(points, n_clusters, max_iter, indices) ==
    KMeansLoop(points, Weights(points), KMeansStart(points, n_clusters, indices),
               max_iter)

random_state == 42                  \* _simple_kmeans(random_state=42)
max_iter == 100                     \* _simple_kmeans(max_iter=100)
DefaultMaxClusters == 5             \* analyze_rates_kmeans(max_clusters=5)
DefaultKMeansMinClusterSize == 10   \* analyze_rates_kmeans(min_cluster_size=10)

\* The process-wide generator np.random: the seed it was last given (0: the
\* entropy of the operating system at start-up) and the draws made since.
\* np.random.seed(random_state) followed by one np.random.choice:
Reseeded == [seed |-> random_state, draws |-> 1]
\* np.random.seed(random_state) followed by a np.random.choice that raised
ReseededOnly == [seed |-> random_state, draws |-> 0]

\* `(amounts_arr > 0) & np.isfinite(amounts_arr) & np.isfinite(commissions_arr)`
KMeansValidMask(row) ==
    row.amount.kind = "num" /\ row.amount.v > 0 /\ row.commission.kind = "num"

ValidPoints(transactions) ==
    LET valid == SelectSeq(transactions, KMeansValidMask)
    IN  asarray([i \in 1..Len(valid) |-> Point(valid[i].amount.v, valid[i].commission.v)])

\* the dictionary of one cluster on the k-means path
KMeansClusterInfo(k, members, valid_transactions) ==
    LET fit == fit_linear_model(members)
    IN  [cluster_id |-> k - 1,
         rate |-> fit.rate,
         minimal_fee |-> fit.fee,
         transaction_count |-> Len(members),
         percentage_of_total |-> PercentOf(Len(members), valid_transactions),
         r_squared |-> RSquared(members, fit)]

\* the dictionary of the only cluster when there are too few transactions
FallbackClusterInfo(points) ==
    LET fit == fit_linear_model(points)
    IN  [cluster_id |-> 0,
         rate |-> fit.rate,
         minimal_fee |-> fit.fee,
         transaction_count |-> Len(points),
         percentage_of_total |-> 10000]

Min2(a, b) == IF a <= b THEN a ELSE b

\* `valid_transactions < min_cluster_size`
TooFewTransactionsStrict(valid_transactions, min_cluster_size) ==
    valid_transactions + 1 < min_cluster_size

TooFewTransactions(valid_transactions, min_cluster_size) ==
    valid_transactions < min_cluster_size

\* the cluster counts n >= 2 the automatic choice scores: those of
\* `range(1, min(max_clusters + 1, valid // min_cluster_size + 1))` whose
\* clusters all have min_cluster_size points
ScoredCounts(points, max_clusters, min_cluster_size, indices) ==
    {n \in 2..(Min2(max_clusters + 1, (Len(points) \div min_cluster_size) + 1) - 1) :
        LET labels == simple_kmeans(points, n, max_iter, indices).labels
        IN  \A k \in 1..n : Len(Members(points, labels, k)) >= min_cluster_size}

\* best_n: 1 has score 0; a larger count wins when its score is the first
\* highest one above 0. The scores are floating point variances of the
\* normalised data and are not computed here: env.best says which count
\* wins, and any scored count may
BestN(points, max_clusters, min_cluster_size, env) ==
    IF env.best \in ScoredCounts(points, max_clusters, min_cluster_size, env.indices)
    THEN env.best ELSE 1

\* _simple_kmeans is called during the automatic choice
AutoCallsKMeans(points, max_clusters, min_cluster_size) ==
    Min2(max_clusters + 1, (Len(points) \div min_cluster_size) + 1) > 2

\* analyze_rates_kmeans(amounts, commissions, n_clusters, max_clusters,
\* min_cluster_size) in the environment env: np_random is the process-wide
\* generator before the call, indices what permutation(n_samples) gives
\* after seed(random_state). Returns the result (raised: np.random.choice
\* was asked for more centroids than there are points) and the generator
\* after the call.
analyze_rates_kmeans(transactions, n_clusters, max_clusters, min_cluster_size, env) ==
    LET points == ValidPoints(transactions)
        valid_transactions == Len(points)
        Returned(error, clusters) ==
            [raised |-> FALSE, error |-> error,
             total_transactions |-> Len(transactions),
             valid_transactions |-> valid_transactions,
             num_clusters |-> Len(clusters),
             clusters |-> clusters]
    IN  IF valid_transactions = 0
        THEN [result |-> Returned(TRUE, <<>>), np_random |-> env.np_random]
        ELSE IF TooFewTransactions(valid_transactions, min_cluster_size)
        THEN [result |-> Returned(FALSE, <<FallbackClusterInfo(points)>>),
              np_random |-> env.np_random]
        ELSE LET auto == n_clusters = NoneVal
                 n == IF auto
                      THEN BestN(points, max_clusters, min_cluster_size, env)
                      ELSE n_clusters[1]
                 called == n # 1
                           \/ (auto /\ AutoCallsKMeans(points, max_clusters,
                                                       min_cluster_size))
             IN  IF n > valid_transactions
                 THEN [result |-> [raised |-> TRUE], np_random |-> ReseededOnly]
                 ELSE LET labels ==
                              IF n = 1
                              THEN asarray([i \in 1..valid_transactions |-> 1])
                              ELSE simple_kmeans(points, n, max_iter,
                                                 env.indices).labels
                          InUse(k) == Len(Members(points, labels, k)) > 0
                          used == SelectSeq([k \in 1..n |-> k], InUse)
                          clusters ==
                              asarray([c \in 1..Len(used) |->
                                  KMeansClusterInfo(used[c],
                                                    Members(points, labels, used[c]),
                                                    valid_transactions)])
                      IN  [result |-> Returned(FALSE, SortByCount(clusters)),
                           np_random |-> IF called THEN Reseeded
                                         ELSE env.np_random]

MaxPoints == 3           \* rows of a table given to analyze_rates_kmeans

KMeansRows == {Tx(1, 0), Tx(2, 2), Tx(6, 1), Tx(0, 1)}

RECURSIVE TablesOf(_, _)
TablesOf(rows, n) ==
    IF n = 0 THEN {<<>>}
    ELSE LET shorter == TablesOf(rows, n - 1) IN
         shorter \cup {Append(s, row) : s \in {t \in shorter : Len(t) = n - 1},
                                        row \in rows}

\* what np.random.permutation(n) may give
PermutationsOf(n) ==
    {f \in [1..n -> 1..n] : \A i, j \in 1..n : f[i] = f[j] => i = j}

EntropySeeded == [seed |-> 0, draws |-> 0]

KMeansInit ==
    /\ TrackerNew
    /\ pc = "kmeans:call"
    /\ output = [result |-> <<>>, np_random |-> EntropySeeded]
    /\ \E transactions \in TablesOf(KMeansRows, MaxPoints),
          n_clusters \in {NoneVal, Some(1), Some(2)},
          min_cluster_size \in {1, 2, DefaultKMeansMinClusterSize} :
          \E indices \in PermutationsOf(Len(ValidPoints(transactions))),
             best \in IF n_clusters = NoneVal THEN 1..MaxPoints ELSE {1} :
             input = [transactions |-> transactions,
                      n_clusters |-> n_clusters,
                      max_clusters |-> DefaultMaxClusters,
                      min_cluster_size |-> min_cluster_size,
                      indices |-> indices,
                      best |-> best]

AnalyzeRatesKMeans ==
    /\ pc = "kmeans:call"
    /\ pc' = "kmeans:done"
    /\ output' = analyze_rates_kmeans(
                     input.transactions, input.n_clusters, input.max_clusters,
                     input.min_cluster_size,
                     [np_random |-> output.np_random, indices |-> input.indices,
                      best |-> input.best])
    /\ UNCHANGED <<input, trackerVars>>

KMeansNext == AnalyzeRatesKMeans

SpecKMeans == KMeansInit /\ [][KMeansNext]_vars

ValidCount == Len(ValidPoints(input.transactions))

\* C21: with at least 1 and fewer than min_cluster_size valid transactions
\* analyze_rates_kmeans returns exactly one cluster over all valid points,
\* transaction_count = valid_transactions and percentage_of_total = 100,
\* whatever n_clusters was requested, and runs no k-means (the generator is
\* never reseeded)
C21_TooFewTransactionsSingleCluster ==
    (pc = "kmeans:done" /\ ValidCount >= 1
        /\ ValidCount < input.min_cluster_size) =>
        /\ ~output.result.raised
        /\ ~output.result.error
        /\ output.result.valid_transactions = ValidCount
        /\ output.result.num_clusters = 1
        /\ Len(output.result.clusters) = 1
        /\ output.result.clusters[1].transaction_count = ValidCount
        /\ output.result.clusters[1].percentage_of_total = 10000
        /\ output.np_random = EntropySeeded

C21_Witness ==
    /\ pc = "kmeans:done"
    /\ ValidCount = 1 /\ Len(input.transactions) = 3
    /\ input.min_cluster_size = 2
    /\ input.n_clusters = Some(2)
    /\ Len(output.result.clusters) = 1
    /\ output.result.clusters[1].transaction_count = 1

\* C22: every cluster analyze_rates_kmeans returns, on the k-means path, on
\* the single-cluster fallback and for a single-point fit, has
\* minimal_fee >= 0
C22_MinimalFeeNonNegative ==
    (pc = "kmeans:done" /\ ~output.result.raised) =>
        \A c \in 1..Len(output.result.clusters) :
            output.result.clusters[c].minimal_fee.num >= 0

\* the least squares intercept of (1, 0) and (2, 2) is -2: the cluster of
\* these two points is returned with minimal_fee 0, next to a one-point
\* cluster
C22_Witness ==
    /\ pc = "kmeans:done"
    /\ input.transactions = <<Tx(1, 0), Tx(2, 2), Tx(6, 1)>>
    /\ input.min_cluster_size = 1
    /\ Len(output.result.clusters) = 2
    /\ output.result.clusters[1].transaction_count = 2
    /\ output.result.clusters[1].rate = FracInt(2)
    /\ output.result.clusters[1].minimal_fee = FracInt(0)
    /\ output.result.clusters[2].transaction_count = 1

\* C23: every cluster analyze_rates_kmeans returns carries r_squared next to
\* its rate and minimal_fee, on the k-means path and on the single-cluster
\* fallback alike
C23_EveryClusterHasRSquared ==
    (pc = "kmeans:done" /\ ~output.result.raised) =>
        \A c \in 1..Len(output.result.clusters) :
            {"rate", "minimal_fee", "r_squared"}
                \subseteq DOMAIN output.result.clusters[c]

\* C24: a call of analyze_rates_kmeans changes neither its inputs nor the
\* state shared between calls, the process-wide random generator included
C24_NoSharedStateChanged ==
    [][ pc' = "kmeans:done" =>
          /\ input' = input
          /\ output'.np_random = output.np_random ]_vars

(***************************************************************************)
(* The loops of the clustering runs, one pass at a time: the scan of        *)
(* analyze_rates_sorting (sorting_algorithm.py) and the loop of             *)
(* _simple_kmeans (kmeans_algorithm.py)                                     *)
(***************************************************************************)
\* valid_rates[sorted_idx] of a sheet
SortedRates(transactions) ==
    LET valid == SelectSeq(transactions, ValidMask)
        valid_rates == asarray([k \in 1..Len(valid) |-> RateOf(valid[k])])
        sorted_idx == ArgSort(valid_rates)
    IN  asarray([r \in 1..Len(valid_rates) |-> valid_rates[sorted_idx[r]]])

\* one pass of `while i < len(sorted_rates)`; i counts from 1
ScanIteration(sorted_rates, scan, eps, min_cluster_size) ==
    LET j == WindowEnd(sorted_rates, scan.i, eps)
    IN  IF j - scan.i >= min_cluster_size
        THEN [i |-> j, found |-> Append(scan.found, [from |-> scan.i, to |-> j - 1]),
              steps |-> scan.steps + 1]
        ELSE [i |-> scan.i + 1, found |-> scan.found, steps |-> scan.steps + 1]

MaxRunRows == 3          \* rows of a sheet whose run is followed pass by pass

\* sheets for the scan: rates 3.80%, 3.84% and 3.88% in every order
ScanRunRows == {Tx(10000, 380), Tx(10000, 384), Tx(10000, 388)}
\* sheets for _simple_kmeans: the first rows of one table
KMeansRunRows == <<Tx(1, 0), Tx(2, 2), Tx(6, 1), Tx(5, 3), Tx(6, 3)>>

RunsInit ==
    /\ TrackerNew
    /\ \/ /\ pc = "scan:loop"
          /\ \E transactions \in TablesOf(ScanRunRows, MaxRunRows),
                min_cluster_size \in {1, 2} :
                input = [sorted_rates |-> SortedRates(transactions),
                         eps |-> Eps(DefaultMinRateDiff),
                         min_cluster_size |-> min_cluster_size]
          /\ output = [i |-> 1, found |-> <<>>, steps |-> 0]
       \/ /\ pc = "kmeans:loop"
          /\ \E rows \in 1..MaxRunRows :
                LET points == ValidPoints(SubSeq(KMeansRunRows, 1, rows)) IN
                \E n_clusters \in 1..Min2(2, Len(points)),
                   indices \in PermutationsOf(Len(points)),
                   iterations \in {1, 2, max_iter} :
                    /\ input = [points |-> points, n_clusters |-> n_clusters,
                                indices |-> indices, max_iter |-> iterations]
                    /\ output = KMeansStart(points, n_clusters, indices)

ScanStep ==
    /\ pc = "scan:loop"
    /\ output.i <= Len(input.sorted_rates)
    /\ output' = ScanIteration(input.sorted_rates, output, input.eps,
                               input.min_cluster_size)
    /\ UNCHANGED <<pc, input, trackerVars>>

ScanEnd ==
    /\ pc = "scan:loop"
    /\ output.i > Len(input.sorted_rates)
    /\ pc' = "scan:done"
    /\ UNCHANGED <<input, output, trackerVars>>

KMeansIterate ==
    /\ pc = "kmeans:loop"
    /\ KMeansRunning(output, input.max_iter)
    /\ output' = KMeansIteration(input.points, Weights(input.points), output)
    /\ UNCHANGED <<pc, input, trackerVars>>

KMeansReturn ==
    /\ pc = "kmeans:loop"
    /\ ~KMeansRunning(output, input.max_iter)
    /\ pc' = "kmeans:returned"
    /\ UNCHANGED <<input, output, trackerVars>>

RunsNext ==
    \/ ScanStep
    \/ ScanEnd
    \/ KMeansIterate
    \/ KMeansReturn

SpecRuns == RunsInit /\ [][RunsNext]_vars

\* the loops run without waiting for anything: a pass that can be made is made
FairSpecRuns == SpecRuns /\ WF_vars(RunsNext)

\* C29: every clustering run terminates: each pass of the scan advances its
\* start index by at least one and the scan makes at most one pass per
\* valid rate; _simple_kmeans makes at most max_iter passes and no pass
\* after the centroids stopped moving; both loops end
C29_ClusteringRunsTerminate ==
    /\ [][ (pc = "scan:loop" /\ output' # output) =>
              output'.i >= output.i + 1 ]_vars
    /\ [](pc \in {"scan:loop", "scan:done"} =>
              output.steps <= Len(input.sorted_rates))
    /\ [](pc \in {"kmeans:loop", "kmeans:returned"} =>
              output.iterations <= input.max_iter)
    /\ [][ (pc = "kmeans:loop" /\ output.converged) => output' = output ]_vars
    /\ <>(pc \in {"scan:done", "kmeans:returned"})

\* the cap on the passes ended a run whose centroids were still moving
C29_Witness ==
    /\ pc = "kmeans:returned"
    /\ ~output.converged
    /\ output.iterations = input.max_iter
    /\ input.n_clusters = 2

====
